---- MODULE Spec2Model ----
(***************************************************************************)
(* A model of the hica agent runtime: the Thread event log (core.py), the  *)
(* Agent control loop and its LLM gateway (agent.py), the ToolRegistry     *)
(* (tools.py) and the ConversationMemoryStore (memory.py).                 *)
(*                                                                         *)
(* Twelve specifications share the variables:                                *)
(*   Spec         - the registry is filled, a caller builds a thread and   *)
(*                  drives agent_loop over it, possibly several times;     *)
(*   ThreadSpec   - the public operations on one Thread (Thread's methods  *)
(*                  and the Agent calls that take a thread), in any order, *)
(*                  over events of every type and payload shape;           *)
(*   StoreSpec    - set / get / delete on one ConversationMemoryStore of   *)
(*                  each backend type;                                     *)
(*   JsonSpec     - a thread built with add_event and passed through       *)
(*                  to_json and from_json;                                 *)
(*   RegistrySpec - registrations from local objects and tool servers, and *)
(*                  dispatches by name;                                    *)
(*   ConnSpec     - one MCPConnectionManager connected, disconnected and   *)
(*                  called, directly and through a registry;               *)
(*   RemoteSpec   - ToolRegistry.execute_tool on the tools of a tool       *)
(*                  server, over results of every shape;                   *)
(*   LocalSpec    - ToolRegistry.execute_tool on local tools of every      *)
(*                  shape: functions and tool objects, plain or coroutine; *)
(*   LiveSpec     - one thread object changed by its caller between calls  *)
(*                  of a ConversationMemoryStore and a ThreadStore;        *)
(*   CatalogSpec  - the steps of agent_loop while tools are added to and   *)
(*                  removed from the registry of its Agent;                *)
(*   RaceSpec     - two callers of set and one caller of get on the same   *)
(*                  thread_id at the same time;                            *)
(*   PairSpec     - agent_loop over two threads at the same time, with one *)
(*                  Agent and one ToolRegistry.                            *)
(*                                                                         *)
(* Python values are tagged records: py names the Python type, and the     *)
(* payload sits in a field named after it (s, i, f, d), so that values of  *)
(* different Python types never share a field.  An event carries obj:      *)
(* "Event" for a models.Event instance, "dict" for a plain mapping put     *)
(* into thread.events without validation.                                  *)
(***************************************************************************)
EXTENDS Integers, Sequences, FiniteSets, TLC

VARIABLES
    events,           \* Thread.events of the thread under work
    lastOp,           \* name of the operation that ran last
    ret,              \* what it returned, or the exception it raised
    arg,              \* its integer argument (NoneInt when it has none or where None is passed)
    prevLen,          \* len(thread.events) when it was called
    pc,               \* position of the agent_loop generator
    selection,        \* intent held by agent_loop after select_tool
    arguments,        \* arguments held by agent_loop after fill_parameters
    iter,             \* select_tool calls made on the thread so far
    entry,            \* thread.events as they were when agent_loop was entered
    max_events,       \* AgentConfig.max_events_before_summarization
    local_tools,      \* ToolRegistry.local_tools
    local_tool_defs,  \* ToolRegistry.local_tool_defs
    mcp_tools,        \* ToolRegistry.mcp_tools
    all_tool_defs,    \* ToolRegistry.all_tool_defs
    backend_type,     \* ConversationMemoryStore.backend_type
    storage,          \* the backend's content: thread_id -> stored snapshot
    written,          \* thread_id -> the thread last handed to a set that returned
    opKey,            \* the thread_id the last store operation was about
    got,              \* what the last get returned, or the exception it raised
    found,            \* storage and written, or the connection, as the last operation found them
    yielded,          \* thread.events as the consumer of agent_loop found them at the last yield
    yields,           \* yields made by the last step of agent_loop
    step,             \* the step label handed to the last add_event
    executor,         \* what the last ToolRegistry.execute_tool entered
    registered,       \* name, definition and executor of what the last registration registered
    connected,        \* the managers whose client.is_connected() is true
    entered,          \* client.__aenter__() calls made so far
    exited,           \* client.__aexit__() calls made so far
    sent,             \* requests sent to the tool server so far
    scope,            \* position of the caller's `async with manager` block
    file,             \* the file backend's file of one thread_id: whether it exists, and its text
    writers,          \* each concurrent caller of set: its position in set, and its thread
    reader,           \* position of the concurrent caller of get
    loops,            \* thread_id -> the thread and the locals of an agent_loop running over it
    runner,           \* the thread_id of the agent_loop that took the last step
    result,           \* what the last ToolRegistry.execute_tool returned
    threads,          \* ThreadStore.threads: thread_id -> the thread object cached
    tool_metadata_cache  \* Agent._tool_metadata_cache, followed in CatalogSpec

threadVars == <<events, lastOp, ret, arg, prevLen>>
loopVars   == <<pc, selection, arguments, iter, entry, max_events>>
regVars    == <<local_tools, local_tool_defs, mcp_tools, all_tool_defs>>
storeVars  == <<backend_type, storage, written, opKey, got, found>>
yieldVars  == <<yielded, yields>>
connVars   == <<connected, entered, exited, sent, scope>>
raceVars   == <<file, writers, reader>>
pairVars   == <<loops, runner>>
restVars   == <<step, executor, registered, connVars, raceVars, pairVars, result,
                threads, tool_metadata_cache>>
vars       == <<threadVars, loopVars, regVars, storeVars, yieldVars, restVars>>

----------------------------------------------------------------------------
(* Bounds of the exploration. *)

MaxThreadLen == 3   \* ThreadSpec: longest event list a caller builds
MaxUserEvents == 2  \* Spec: most user_input events a caller puts on a thread
MaxIter == 2        \* Spec: select_tool calls explored per thread
MaxStoredLen == 1   \* StoreSpec: most events of a thread handed to set
MaxRaceLen == 2     \* RaceSpec: most events of a thread handed to set
MaxPairIter == 1    \* PairSpec: most select_tool calls of each agent_loop
MaxCatalogIter == 2 \* CatalogSpec: select_tool calls made on the thread
MaxLiveLen == 1     \* LiveSpec: most events appended to the live thread
MaxBlocks == 3      \* RemoteSpec: most content blocks of a remote tool's result
MaxJsonLen == 2     \* JsonSpec: most events of a thread passed through JSON
MaxDispatches == 1  \* RegistrySpec: Agent.execute_tool calls made on the thread
MaxCalls == 2       \* ConnSpec: client.__aenter__() calls, and requests sent

----------------------------------------------------------------------------
(* Python values. *)

NoneV     == [py |-> "None"]
StrV(x)   == [py |-> "str", s |-> x]
IntV(n)   == [py |-> "int", i |-> n]
FloatV(n) == [py |-> "float", f |-> n]
DictV(m)  == [py |-> "dict", d |-> m]

\* dict.get(key): every value of a mapping is a tagged Python value
DictGet(m, key) == IF key \in DOMAIN m THEN m[key] ELSE NoneV

Min(a, b) == IF a <= b THEN a ELSE b

Max(a, b) == IF a >= b THEN a ELSE b

\* Python's seq[-n:]: the last n items for 0 < n, the whole list for n = 0,
\* and the list without its first -n items for n < 0
LastN(seq, n) ==
    LET start == IF n > 0 THEN Max(Len(seq) - n, 0) ELSE Min(-n, Len(seq)) IN
    SubSeq(seq, start + 1, Len(seq))

IsPrefix(a, b) == Len(a) <= Len(b) /\ SubSeq(b, 1, Len(a)) = a

----------------------------------------------------------------------------
(* models.Event and core.Thread. *)

\* Event(type=type, step=step, data=data): the model declares type and data
Event(type, data) == [obj |-> "Event", type |-> type, data |-> data]

\* add_event putting the new event first (events.insert(0, event)); C4 does
\* not hold of it
add_event_front(evs, type, data) == <<Event(type, data)>> \o evs

\* Thread.add_event
add_event(evs, type, data) == Append(evs, Event(type, data))

\* the fields models.Event declares
EventFields == {"type", "data"}

\* Event(**kwargs): a pydantic model without a model_config keeps the
\* declared fields and ignores every other keyword
EventInit(kwargs) ==
    [k \in {"obj"} \cup (DOMAIN kwargs \cap EventFields) |->
        IF k = "obj" THEN "Event" ELSE kwargs[k]]

\* Thread.add_event(type, data, step) with the step label given
add_event_step(evs, type, data, label) ==
    Append(evs, EventInit([type |-> type, step |-> label, data |-> data]))

\* awaiting_human_response answering False for every thread; the amended
\* C15 does not hold of it
awaiting_human_response_never(evs) == "False"

\* Thread.awaiting_human_response: "True", "False" or the exception raised
awaiting_human_response(evs) ==
    IF evs = <<>> THEN "False"
    ELSE LET last_event == evs[Len(evs)] IN
         IF last_event.obj # "Event" THEN "AttributeError"
         ELSE IF /\ last_event.data.py = "dict"
                 /\ DictGet(last_event.data.d, "intent") = StrV("clarification")
              THEN "True" ELSE "False"

\* summarize_context keeping the head of the list (events[:max_events]); the
\* amended C9 does not hold of it
summarize_context_head(evs, max_ev) ==
    IF Len(evs) > max_ev THEN SubSeq(evs, 1, max_ev) ELSE evs

\* Thread.summarize_context
summarize_context(evs, max_ev) ==
    IF Len(evs) > max_ev THEN LastN(evs, max_ev) ELSE evs

----------------------------------------------------------------------------
(* The structured LLM gateway: Agent._build_messages, _call_llm, run_llm. *)

\* AgentConfig.max_events_before_summarization = None, and every other
\* Optional[int] argument left at None
NoneInt == -1

\* Agent._format_tool_metadata: the listing put into the system message, one
\* `<tool> name : description</tool>` line per entry of all_tool_defs, as the
\* set of the names listed.  The listing is built when the cache is None and
\* is answered from the cache ever after
format_tool_metadata(cache, atd) ==
    IF cache = NoneV
    THEN [py |-> "str", tools |-> {atd[k].name : k \in DOMAIN atd}]
    ELSE cache

\* the exception _build_messages raises on one event of the history, or "None"
MessageError(e) ==
    IF e.obj # "Event" THEN "AttributeError"            \* event.type on a dict
    ELSE IF e.type # "llm_response" THEN "None"
    ELSE IF e.data.py \in {"None", "int", "float"} THEN "TypeError"  \* "intent" in data
    ELSE "None"

\* the chat message _build_messages projects one event to, <<>> for none
MessageOf(e) ==
    IF e.type = "user_input" THEN <<[role |-> "user", of |-> "user_input"]>>
    ELSE IF e.type = "llm_response" THEN
        IF e.data.py = "dict" /\ "intent" \in DOMAIN e.data.d
        THEN IF e.data.d.intent \in {StrV("done"), StrV("clarification")}
             THEN <<[role |-> "assistant", of |-> "intent"]>>
             ELSE <<[role |-> "assistant", of |-> "selected_tool"]>>
        ELSE <<[role |-> "assistant", of |-> "llm_text"]>>
    ELSE IF e.type = "tool_response" THEN <<[role |-> "user", of |-> "tool_result"]>>
    ELSE <<>>

RECURSIVE HistoryMessages(_)
HistoryMessages(evs) ==
    IF evs = <<>> THEN <<>>
    ELSE HistoryMessages(SubSeq(evs, 1, Len(evs) - 1)) \o MessageOf(evs[Len(evs)])

\* Agent._build_messages: exc is the exception of the first event that raises
build_messages(evs) ==
    LET bad == {k \in 1..Len(evs) : MessageError(evs[k]) # "None"} IN
    IF bad # {}
    THEN [exc |-> MessageError(evs[CHOOSE k \in bad : \A j \in bad : k <= j]),
          messages |-> <<>>]
    ELSE [exc |-> "None",
          messages |-> <<[role |-> "system", of |-> "system"]>>
                       \o HistoryMessages(evs)
                       \o <<[role |-> "user", of |-> "prompt"]>>]

\* run_llm's pruning: if max_thread_events and thread
prune(evs, max_thread_events) ==
    IF max_thread_events # NoneInt /\ max_thread_events # 0
    THEN LastN(evs, max_thread_events) ELSE evs

\* run_llm appending the answer whatever add_event says; C27 does not hold
\* of it
run_llm_always_adding(evs, max_thread_events, provider, response, add) ==
    LET pruned == prune(evs, max_thread_events)
        built  == build_messages(pruned) IN
    IF built.exc # "None" THEN [events |-> pruned, exc |-> built.exc]
    ELSE IF provider # "ok" THEN [events |-> pruned, exc |-> "ValueError"]
    ELSE [events |-> add_event(pruned, "llm_response", response), exc |-> "None"]

\* Agent.run_llm without a thread: the messages are the system message and
\* the prompt, and there is nothing to prune or to append to; evs are the
\* events of a thread the caller holds
run_llm_no_thread(evs, provider) ==
    [events |-> evs, exc |-> IF provider = "ok" THEN "None" ELSE "ValueError"]

\* Agent.run_llm on a thread.  provider is "ok" or "fail" (the provider call,
\* with the validation of its answer against the response model); response is
\* the validated answer's model_dump(exclude_none=True).
\* Gives the thread's events afterwards and the exception raised, if any.
run_llm(evs, max_thread_events, provider, response, add) ==
    LET pruned == prune(evs, max_thread_events)
        built  == build_messages(pruned) IN
    IF built.exc # "None" THEN [events |-> pruned, exc |-> built.exc]
    ELSE IF provider # "ok" THEN [events |-> pruned, exc |-> "ValueError"]
    ELSE [events |-> IF add THEN add_event(pruned, "llm_response", response)
                     ELSE pruned,
          exc |-> "None"]

\* default of summarize_thread_with_llm's keep_last_n
KeepLastN == 5

\* the summary_event of summarize_thread_with_llm: a plain dict
SummaryEvent(text) ==
    [obj |-> "dict", type |-> "context_summary", data |-> StrV(text)]

\* summarize_thread_with_llm leaving run_llm's add_event at its default True;
\* C8 does not hold of it
summarize_thread_adding_response(evs, keep_last_n, provider, text) ==
    LET r == run_llm(evs, NoneInt, provider, DictV([summary |-> StrV(text)]), TRUE) IN
    IF r.exc # "None" THEN r
    ELSE [events |-> <<SummaryEvent(text)>> \o LastN(r.events, keep_last_n),
          exc |-> "None"]

\* Agent.summarize_thread_with_llm
summarize_thread_with_llm(evs, keep_last_n, provider, text) ==
    LET r == run_llm(evs, NoneInt, provider, DictV([summary |-> StrV(text)]), FALSE) IN
    IF r.exc # "None" THEN r
    ELSE [events |-> <<SummaryEvent(text)>> \o LastN(evs, keep_last_n),
          exc |-> "None"]

----------------------------------------------------------------------------
(* tools.py: tool definitions, the per-tool parameter model, ToolRegistry. *)

\* a ToolResult(llm_content, display_content, raw_result) object whose two
\* texts are the same
ToolResultV(text, raw) ==
    [py |-> "ToolResult", llm_content |-> text, display_content |-> text,
     raw_result |-> raw]

\* str(value)
str_of(value) ==
    CASE value.py = "str"  -> value.s
      [] value.py = "int"  -> ToString(value.i)
      [] value.py = "None" -> "None"
      [] OTHER             -> "ToolResult(...)"

\* one parameter of a Python signature
Param(name, annotation, has_default) ==
    [name |-> name, annotation |-> annotation, has_default |-> has_default]

\* What callers register: a plain function
\*     def add(a: float, b: float)
\* and a BaseTool instance whose execute is
\*     async def execute(self, query: str, limit: int = 3)
\* is_async tells a coroutine function from a plain one, returns is the value
\* the body returns when it does not raise.
FuncAdd ==
    [kind |-> "function", name |-> "add",
     params |-> <<Param("a", "float", FALSE), Param("b", "float", FALSE)>>,
     is_async |-> FALSE, returns |-> StrV("out")]
ToolSearch ==
    [kind |-> "BaseTool", name |-> "search",
     params |-> <<Param("query", "str", FALSE), Param("limit", "int", TRUE)>>,
     is_async |-> TRUE, returns |-> ToolResultV("out", StrV("out"))]
LocalItems == {FuncAdd, ToolSearch}

\* What the tool server's list_tools() answers: name and inputSchema.  A
\* property schema either carries a type or, as for an optional parameter,
\* an anyOf over types and no type key.
RemoteEcho ==
    [name |-> "echo",
     inputSchema |-> [properties |-> [text |-> [type |-> "string"],
                                      mode |-> [anyOf |-> {"string", "null"}]],
                      required |-> {"text"}]]
RemoteTools == <<RemoteEcho>>

\* a BaseTool instance named like the function: execute(self, x: int)
ToolAdd ==
    [kind |-> "BaseTool", name |-> "add", params |-> <<Param("x", "int", FALSE)>>,
     is_async |-> TRUE, returns |-> ToolResultV("out", StrV("out"))]

\* a server tool named like the local function
RemoteAdd ==
    [name |-> "add",
     inputSchema |-> [properties |-> [a |-> [type |-> "number"], b |-> [type |-> "number"]],
                      required |-> {"a", "b"}]]

\* the MCPConnectionManager objects of the caller, one per tool server
Managers == {"m1", "m2"}

\* The clients of the managers as one value: the managers whose
\* client.is_connected() is true, the client.__aenter__() and
\* client.__aexit__() calls made, the requests sent to a server.
Conn(co, en, ex, se) == [connected |-> co, entered |-> en, exited |-> ex, sent |-> se]

\* __aenter__ entering the client whatever its state; C17 does not hold of it
manager_aenter_always(c, m, outcome) ==
    [conn |-> Conn(c.connected \cup {m}, c.entered + 1, c.exited, c.sent), exc |-> "None"]

\* MCPConnectionManager.__aenter__, which is connect() as well.  outcome is
\* what client.__aenter__() does once called: "ok", or "refused" when it
\* raises and leaves the client disconnected.
manager_aenter(c, m, outcome) ==
    IF m \in c.connected THEN [conn |-> c, exc |-> "None"]
    ELSE IF outcome = "ok"
    THEN [conn |-> Conn(c.connected \cup {m}, c.entered + 1, c.exited, c.sent),
          exc |-> "None"]
    ELSE [conn |-> Conn(c.connected, c.entered + 1, c.exited, c.sent),
          exc |-> "ConnectionError"]

\* __aexit__ closing the client only when the block ended without an
\* exception; C19 does not hold of it
manager_aexit_on_success(c, m, exc_type) ==
    IF m \in c.connected /\ exc_type = "None"
    THEN Conn(c.connected \ {m}, c.entered, c.exited + 1, c.sent)
    ELSE c

\* MCPConnectionManager.__aexit__(exc_type, ...); disconnect() is
\* __aexit__(None, None, None)
manager_aexit(c, m, exc_type) ==
    IF m \in c.connected
    THEN Conn(c.connected \ {m}, c.entered, c.exited + 1, c.sent)
    ELSE c

\* call_tool without the is_connected() test; C18 does not hold of it
manager_call_tool_unchecked(c, m, outcome) ==
    [conn |-> Conn(c.connected, c.entered, c.exited, c.sent + 1), exc |-> "None"]

\* MCPConnectionManager.call_tool: outcome is what the server does with the
\* request, "ok" or "raise"
manager_call_tool(c, m, outcome) ==
    IF m \notin c.connected THEN [conn |-> c, exc |-> "RuntimeError"]
    ELSE [conn |-> Conn(c.connected, c.entered, c.exited, c.sent + 1),
          exc |-> IF outcome = "raise" THEN "ToolError" ELSE "None"]

\* MCPConnectionManager.list_tools
manager_list_tools(c, m, outcome) ==
    IF m \notin c.connected THEN [conn |-> c, exc |-> "RuntimeError"]
    ELSE [conn |-> Conn(c.connected, c.entered, c.exited, c.sent + 1),
          exc |-> IF outcome = "raise" THEN "ToolError" ELSE "None"]

ToolNames == {"add", "search", "echo"}

\* ToolDefinition(name, description, parameters_json_schema)
ToolDefinition(name, schema) == [name |-> name, parameters_json_schema |-> schema]

\* inspect.signature(tool_instance.execute) without self: a wrapped function
\* is inspected through FunctionToolWrapper.execute(self, **kwargs)
ExecuteSignature(tool) ==
    IF tool.kind = "function" THEN <<Param("kwargs", "empty", FALSE)>>
    ELSE tool.params

\* type_map of _register_local_tool, "string" for any other annotation
JsonType(annotation) ==
    CASE annotation = "int"   -> "integer"
      [] annotation = "float" -> "number"
      [] annotation = "str"   -> "string"
      [] annotation = "bool"  -> "boolean"
      [] annotation = "list"  -> "array"
      [] annotation = "dict"  -> "object"
      [] OTHER                -> "string"

\* the tool_def _register_local_tool derives
LocalToolDef(tool) ==
    LET sig   == ExecuteSignature(tool)
        names == {sig[k].name : k \in 1..Len(sig)}
        param(n) == sig[CHOOSE k \in 1..Len(sig) : sig[k].name = n] IN
    ToolDefinition(tool.name,
        [properties |-> [n \in names |->
                            IF param(n).has_default
                            THEN [type |-> JsonType(param(n).annotation),
                                  default |-> "default"]
                            ELSE [type |-> JsonType(param(n).annotation)]],
         required   |-> {n \in names : ~param(n).has_default}])

\* d[key] = value on a dict
Put(d, key, value) ==
    [k \in DOMAIN d \cup {key} |-> IF k = key THEN value ELSE d[k]]

\* del d[key]
Del(d, key) == [k \in DOMAIN d \ {key} |-> d[k]]

\* the four maps of a ToolRegistry
Registry(lt, ltd, mt, atd) ==
    [local_tools |-> lt, local_tool_defs |-> ltd, mcp_tools |-> mt, all_tool_defs |-> atd]

\* ToolRegistry._register_local_tool(tool), intent left at None
register_local_tool(reg, tool) ==
    LET tool_intent == tool.name
        tool_def    == LocalToolDef(tool) IN
    Registry(Put(reg.local_tools, tool_intent, tool),
             Put(reg.local_tool_defs, tool_intent, tool_def),
             reg.mcp_tools,
             Put(reg.all_tool_defs, tool_intent, tool_def))

\* ToolRegistry.load_mcp_tools over the first k tools the server of
\* mcp_manager lists
RECURSIVE load_mcp_tools(_, _, _, _)
load_mcp_tools(reg, mcp_manager, tools, k) ==
    IF k = 0 THEN reg
    ELSE LET before   == load_mcp_tools(reg, mcp_manager, tools, k - 1)
             tool_def == ToolDefinition(tools[k].name, tools[k].inputSchema) IN
         Registry(before.local_tools, before.local_tool_defs,
                  Put(before.mcp_tools, tools[k].name,
                      [manager |-> mcp_manager, tool_def |-> tool_def]),
                  Put(before.all_tool_defs, tools[k].name, tool_def))

\* ToolRegistry.remove_tool(name): the registry afterwards and the exception
\* raised.  `del d[name]` raises KeyError when the name is not a key of d,
\* and what was deleted before stays deleted
remove_tool(reg, name) ==
    IF name \in DOMAIN reg.local_tools THEN
        IF name \notin DOMAIN reg.local_tool_defs
        THEN [reg |-> Registry(Del(reg.local_tools, name), reg.local_tool_defs,
                               reg.mcp_tools, reg.all_tool_defs),
              exc |-> "KeyError"]
        ELSE IF name \notin DOMAIN reg.all_tool_defs
        THEN [reg |-> Registry(Del(reg.local_tools, name), Del(reg.local_tool_defs, name),
                               reg.mcp_tools, reg.all_tool_defs),
              exc |-> "KeyError"]
        ELSE [reg |-> Registry(Del(reg.local_tools, name), Del(reg.local_tool_defs, name),
                               reg.mcp_tools, Del(reg.all_tool_defs, name)),
              exc |-> "None"]
    ELSE IF name \in DOMAIN reg.mcp_tools THEN
        IF name \notin DOMAIN reg.all_tool_defs
        THEN [reg |-> Registry(reg.local_tools, reg.local_tool_defs,
                               Del(reg.mcp_tools, name), reg.all_tool_defs),
              exc |-> "KeyError"]
        ELSE [reg |-> Registry(reg.local_tools, reg.local_tool_defs,
                               Del(reg.mcp_tools, name), Del(reg.all_tool_defs, name)),
              exc |-> "None"]
    ELSE [reg |-> reg, exc |-> "None"]

\* create_model_from_tool_schema never leaving the default annotation Any;
\* C6 does not hold of it
create_model_all_any(tool_def) ==
    [n \in DOMAIN tool_def.parameters_json_schema.properties |-> "Any"]

\* create_model_from_tool_schema: field name -> Python annotation; every
\* field is declared (annotation, ...), that is required
create_model_from_tool_schema(tool_def) ==
    LET props == tool_def.parameters_json_schema.properties
        type(schema) == IF "type" \in DOMAIN schema THEN schema.type ELSE "None" IN
    [n \in DOMAIN props |->
        CASE type(props[n]) = "integer" -> "int"
          [] type(props[n]) = "number"  -> "float"
          [] type(props[n]) = "string"  -> "str"
          [] type(props[n]) = "boolean" -> "bool"
          [] type(props[n]) = "array"   -> "list"
          [] type(props[n]) = "object"  -> "dict"
          [] OTHER                      -> "Any"]

\* The values a provider puts into a parameter answer
NumStr == "3"
Vals == {IntV(3), StrV(NumStr)}
Invalid == [py |-> "ValidationError"]

\* pydantic's validation of one value against a field annotation (lax mode):
\* the validated value, or Invalid
Coerce(annotation, v) ==
    CASE annotation = "Any" -> v
      [] annotation = "int" ->
            IF v.py = "int" THEN v
            ELSE IF v = StrV(NumStr) THEN IntV(3) ELSE Invalid
      [] annotation = "float" ->
            IF v.py = "float" THEN v
            ELSE IF v.py = "int" THEN FloatV(v.i)
            ELSE IF v = StrV(NumStr) THEN FloatV(3) ELSE Invalid
      [] annotation = "str" -> IF v.py = "str" THEN v ELSE Invalid
      [] OTHER -> Invalid

\* the provider answers a parameter request with a mapping over some of the
\* model's field names, with or without one more key
RawAnswers(model) ==
    LET plain == UNION {[keys -> Vals] : keys \in SUBSET DOMAIN model} IN
    plain \cup {Put(raw, "extra", IntV(3)) : raw \in plain}

\* the answer validated against the parameter model: missing or invalid
\* fields fail, other keys are ignored
Validated(model, raw) ==
    IF \A n \in DOMAIN model : n \in DOMAIN raw /\ Coerce(model[n], raw[n]) # Invalid
    THEN [ok |-> TRUE, fields |-> [n \in DOMAIN model |-> Coerce(model[n], raw[n])]]
    ELSE [ok |-> FALSE, fields |-> <<>>]

\* check_intent without the membership test; C5 does not hold of it
check_intent_any(intent, valid_intents) == TRUE

\* check_intent of select_tool's ToolSelection
check_intent(intent, valid_intents) == intent \in valid_intents

\* valid_intents of select_tool(tools=None)
valid_intents(atd) == DOMAIN atd \cup {"done", "clarification"}

\* select_tool taking the provider's answer without check_intent; C25 does
\* not hold of it
select_tool_trusting(evs, atd, provider, intent, reason) ==
    LET data == DictV([intent |-> StrV(intent), reason |-> StrV(reason)])
        r    == run_llm(evs, NoneInt, provider, data, FALSE) IN
    IF r.exc # "None" THEN [events |-> r.events, exc |-> r.exc, returns |-> "None"]
    ELSE [events  |-> add_event(r.events, "llm_response", data),
          exc     |-> "None",
          returns |-> IF intent = "done" THEN "DoneForNow"
                      ELSE IF intent = "clarification" THEN "ClarificationRequest"
                      ELSE "ToolSelection"]

\* Agent.select_tool(tools=None, thread, add_event=True).  provider is "fail"
\* or "ok", intent and reason the answer; an answer check_intent rejects makes
\* the call fail.  Gives events, exc and the value returned: "DoneForNow",
\* "ClarificationRequest" or "ToolSelection".
select_tool(evs, atd, provider, intent, reason) ==
    LET answer == IF check_intent(intent, valid_intents(atd)) THEN provider ELSE "fail"
        data   == DictV([intent |-> StrV(intent), reason |-> StrV(reason)])
        r      == run_llm(evs, NoneInt, answer, data, FALSE) IN
    IF r.exc # "None" THEN [events |-> r.events, exc |-> r.exc, returns |-> "None"]
    ELSE [events  |-> add_event(r.events, "llm_response", data),
          exc     |-> "None",
          returns |-> IF intent = "done" THEN "DoneForNow"
                      ELSE IF intent = "clarification" THEN "ClarificationRequest"
                      ELSE "ToolSelection"]

\* Agent.fill_parameters(intent, thread).  raw is the provider's answer.
fill_parameters(evs, atd, intent, provider, raw) ==
    IF intent \notin DOMAIN atd
    THEN [events |-> evs, exc |-> "ValueError", arguments |-> <<>>]
    ELSE
    LET tool_def        == atd[intent]
        ToolParamsModel == create_model_from_tool_schema(tool_def)
        param_response  == Validated(ToolParamsModel, raw)
        answer == IF param_response.ok THEN provider ELSE "fail"
        r      == run_llm(evs, NoneInt, answer, NoneV, FALSE)
        args   == [n \in DOMAIN tool_def.parameters_json_schema.properties
                       \cap DOMAIN param_response.fields |-> param_response.fields[n]] IN
    IF r.exc # "None" THEN [events |-> r.events, exc |-> r.exc, arguments |-> <<>>]
    ELSE [events |-> add_event(r.events, "llm_response",
                        DictV([intent |-> StrV(intent), arguments |-> DictV(args)])),
          exc |-> "None", arguments |-> args]

\* Python's binding of keyword arguments to a signature
Accepts(params, keys) ==
    LET names == {params[k].name : k \in 1..Len(params)} IN
    /\ keys \subseteq names
    /\ \A k \in 1..Len(params) : ~params[k].has_default => params[k].name \in keys

\* ToolResult(llm_content, display_content, raw_result).model_dump()
ToolResultDump(text, raw) ==
    DictV([llm_content |-> StrV(text), display_content |-> StrV(text), raw_result |-> raw])

\* serialize_mcp_result of what a dispatch returned: a pydantic model is
\* dumped, None and the primitives are returned as they are
serialize_mcp_result(value) ==
    IF value.py = "ToolResult"
    THEN ToolResultDump(value.llm_content, value.raw_result)
    ELSE value

\* Texts are sequences of characters.  parts joined with sep between them:
\* sep.join(parts)
RECURSIVE Join(_, _)
Join(parts, sep) ==
    IF parts = <<>> THEN <<>>
    ELSE IF Len(parts) = 1 THEN parts[1]
    ELSE parts[1] \o sep \o Join(Tail(parts), sep)

\* base64.b64encode of the payloads used
b64encode(text) ==
    CASE text = "hello" -> "aGVsbG8="
      [] OTHER -> "ZA=="

\* A mapping as the sequence of its items, each <<key, value>> with a text
\* value.  serialize_mcp_result of a mapping: a mapping with the keys
\* mime_type and data gets its data base64-encoded, any other mapping is
\* returned as it is
serialize_mapping(items) ==
    IF {"mime_type", "data"} \subseteq {items[k][1] : k \in 1..Len(items)}
    THEN [k \in 1..Len(items) |->
             IF items[k][1] = "data" THEN <<"data", b64encode(items[k][2])>>
             ELSE items[k]]
    ELSE items

\* json.dumps of a mapping with its default separators, ", " between items
\* and ": " between key and value
json_dumps(items) ==
    <<"{">>
    \o Join([k \in 1..Len(items) |-> <<items[k][1], ":", " ", items[k][2]>>], <<",", " ">>)
    \o <<"}">>

\* What MCPConnectionManager.call_tool answers with: structured_content, a
\* mapping or None (present FALSE), and content, a list of content blocks;
\* a text block has the attribute text, an image block has not
TextBlock(text) == [kind |-> "text", text |-> text]
ImageBlock == [kind |-> "image"]
Blocks == {TextBlock(<<"h", "i">>), TextBlock(<<>>), ImageBlock}
NoStructure == [present |-> FALSE, items |-> <<>>]
Structured(items) == [present |-> TRUE, items |-> items]
StructuredContents ==
    {NoStructure, Structured(<<>>), Structured(<<<<"echoed", "hello">>>>),
     Structured(<<<<"mime_type", "text/plain">>, <<"data", "hello">>>>)}
RawResults ==
    {[structured_content |-> sc, content |-> content] :
        sc \in StructuredContents,
        content \in UNION {[1..n -> Blocks] : n \in 0..MaxBlocks}}

\* str(serialize_mcp_result(raw_result)), a text that is not empty
StrOfResult == <<"<", "result", ">">>

\* the result left as the server gave it; the amended C30 does not hold of it
mcp_tool_result_raw(raw_result) ==
    [llm_content |-> StrOfResult, display_content |-> StrOfResult,
     raw_result |-> raw_result]

\* ToolRegistry.execute_tool, the branch of a remote tool after call_tool
\* returned raw_result: the ToolResult built from it
mcp_tool_result(raw_result) ==
    LET structured == raw_result.structured_content
        with_text  == SelectSeq(raw_result.content, LAMBDA item : item.kind = "text")
        display_parts == [k \in 1..Len(with_text) |-> with_text[k].text]
        llm_first == IF structured.present
                     THEN json_dumps(serialize_mapping(structured.items))
                     ELSE <<>>
        display_first == IF raw_result.content # <<>>
                         THEN Join(display_parts, <<" ">>)
                         ELSE <<>>
        llm_content_str == IF llm_first = <<>> THEN StrOfResult ELSE llm_first
        display_content_str == IF display_first = <<>> THEN llm_content_str
                               ELSE display_first IN
    [llm_content |-> llm_content_str, display_content |-> display_content_str,
     raw_result |-> raw_result]

\* no executor: the name is in neither map
NoExecutor == [origin |-> "none"]

\* what ToolRegistry.execute_tool(name, ...) hands the call to: the local
\* tool object if the name is in local_tools, else the manager the name came
\* from
Executor(reg, name) ==
    IF name \in DOMAIN reg.local_tools
    THEN [origin |-> "local", tool |-> reg.local_tools[name]]
    ELSE IF name \in DOMAIN reg.mcp_tools
    THEN [origin |-> "mcp", manager |-> reg.mcp_tools[name].manager]
    ELSE NoExecutor

\* execute_tool answering None for a name it does not know; C14 does not
\* hold of it
registry_execute_tool_lenient(reg, name, args, outcome) ==
    [exc |-> "None", result |-> NoneV, executor |-> Executor(reg, name)]

\* FunctionToolWrapper.execute(**kwargs): the wrapped function is called,
\* awaited if it is a coroutine function, and its value is wrapped
wrapper_execute(tool) == ToolResultV(str_of(tool.returns), tool.returns)

\* `await tool.execute(**arguments)` of execute_tool on a local tool that
\* accepts the arguments and does not raise: a wrapped function answers
\* through the wrapper, a tool object answers what its execute returns, and
\* awaiting the value of an execute that is not a coroutine function fails
await_local_execute(tool) ==
    IF tool.kind = "function" THEN [exc |-> "None", result |-> wrapper_execute(tool)]
    ELSE IF ~tool.is_async THEN [exc |-> "TypeError", result |-> NoneV]
    ELSE [exc |-> "None", result |-> tool.returns]

\* ToolRegistry.execute_tool(name, arguments).  outcome is "ok" or "raise":
\* what the executor (the function, the tool object, the remote call) does
\* once it is entered.
registry_execute_tool(reg, name, args, outcome) ==
    LET by == Executor(reg, name)
        r  == IF by.origin = "local" THEN
                  IF ~Accepts(by.tool.params, DOMAIN args)
                  THEN [exc |-> "TypeError", result |-> NoneV]
                  ELSE IF outcome = "raise" THEN [exc |-> "ToolError", result |-> NoneV]
                  ELSE await_local_execute(by.tool)
              ELSE IF by.origin = "mcp" THEN
                  IF outcome = "raise" THEN [exc |-> "RuntimeError", result |-> NoneV]
                  ELSE [exc |-> "None", result |-> ToolResultV("out", StrV("remote"))]
              ELSE [exc |-> "ValueError", result |-> NoneV] IN
    [exc |-> r.exc, result |-> r.result, executor |-> by]

\* execute_tool emptying the thread when the dispatch raises; C13 does not
\* hold of it
execute_tool_clearing(evs, reg, tool_name, args, outcome) ==
    LET r == registry_execute_tool(reg, tool_name, args, outcome) IN
    IF r.exc # "None" THEN [events |-> <<>>, exc |-> r.exc]
    ELSE [events |-> evs, exc |-> "None"]

\* execute_tool logging the response without the call; C24 does not hold
\* of it
execute_tool_response_only(evs, reg, tool_name, args, outcome) ==
    LET r == registry_execute_tool(reg, tool_name, args, outcome) IN
    IF r.exc # "None" THEN [events |-> evs, exc |-> r.exc]
    ELSE [events |-> add_event(evs, "tool_response",
                        DictV([response |-> serialize_mcp_result(r.result),
                               source |-> StrV("ToolRegistry")])),
          exc |-> "None"]

\* Agent.execute_tool(tool_name, arguments, thread, add_event=True)
execute_tool(evs, reg, tool_name, args, outcome) ==
    LET called == add_event(evs, "tool_call",
                      DictV([intent |-> StrV(tool_name), arguments |-> DictV(args)]))
        r == registry_execute_tool(reg, tool_name, args, outcome) IN
    IF r.exc # "None" THEN [events |-> called, exc |-> r.exc]
    ELSE [events |-> add_event(called, "tool_response",
                        DictV([response |-> serialize_mcp_result(r.result),
                               source |-> StrV("ToolRegistry")])),
          exc |-> "None"]

\* tool_results of _generate_final_response: event type -> the data of the
\* event of that type the loop over thread.events assigned last
ToolResults(evs) ==
    LET kept(t) == {k \in 1..Len(evs) : evs[k].type = t}
        types   == {t \in {"tool_response", "user_input"} : kept(t) # {}} IN
    [t \in types |-> evs[CHOOSE k \in kept(t) : \A j \in kept(t) : j <= k].data]

\* _generate_final_response without its thread.add_event; C2 does
\* not hold of it
generate_final_response_no_event(evs, provider, message, summary) ==
    run_llm(evs, NoneInt, provider, NoneV, FALSE)

\* Agent._generate_final_response.  summary is the answer's summary or NoneV.
generate_final_response(evs, provider, message, summary) ==
    LET r == run_llm(evs, NoneInt, provider, NoneV, FALSE)
        base == [intent |-> StrV("final_response"), message |-> StrV(message),
                 raw_results |-> DictV(ToolResults(evs))]
        dump == IF summary = NoneV THEN base ELSE Put(base, "summary", summary) IN
    IF r.exc # "None" THEN r
    ELSE [events |-> add_event(r.events, "llm_response", DictV(dump)), exc |-> "None"]

\* the entry check comparing without the test that a threshold is set; C7
\* does not hold of it
should_summarize_unset(max_ev, n) == n > max_ev

\* the entry check of agent_loop
should_summarize(max_ev, n) == max_ev # NoneInt /\ max_ev # 0 /\ n > max_ev

----------------------------------------------------------------------------
(* core.Thread as a value, its JSON form, and memory.ConversationMemoryStore. *)

\* Thread(thread_id=id, events=evs), metadata left empty
Thread(id, evs) == [thread_id |-> id, events |-> evs, metadata |-> <<>>]

\* json.dumps of a payload: a JSON string, number or object
RECURSIVE JsonOf(_)
JsonOf(v) ==
    CASE v.py = "str"  -> [js |-> "string", s |-> v.s]
      [] v.py = "int"  -> [js |-> "number", i |-> v.i]
      [] v.py = "dict" -> [js |-> "object", o |-> [k \in DOMAIN v.d |-> JsonOf(v.d[k])]]
      [] OTHER         -> [js |-> "null"]

\* json.loads of a JSON value
RECURSIVE PyOf(_)
PyOf(j) ==
    CASE j.js = "string" -> StrV(j.s)
      [] j.js = "number" -> IntV(j.i)
      [] j.js = "object" -> DictV([k \in DOMAIN j.o |-> PyOf(j.o[k])])
      [] OTHER           -> NoneV

\* Thread.to_json, that is model_dump_json(exclude_none=True): a field that
\* holds None is left out of its object
to_json(thread) ==
    [thread_id |-> thread.thread_id,
     events    |-> [k \in 1..Len(thread.events) |->
                       IF thread.events[k].data = NoneV
                       THEN [type |-> thread.events[k].type]
                       ELSE [type |-> thread.events[k].type,
                             data |-> JsonOf(thread.events[k].data)]],
     metadata  |-> <<>>]

\* Thread.from_json: Event declares data without a default, so an object
\* without data fails the validation
from_json(doc) ==
    IF \E k \in 1..Len(doc.events) : "data" \notin DOMAIN doc.events[k]
    THEN [exc |-> "ValidationError", value |-> NoneV]
    ELSE [exc |-> "None",
          value |-> Thread(doc.thread_id,
                       [k \in 1..Len(doc.events) |->
                           Event(doc.events[k].type, PyOf(doc.events[k].data))])]

\* Thread.model_dump(): plain mappings, None kept
model_dump(thread) ==
    [thread_id |-> thread.thread_id,
     events    |-> [k \in 1..Len(thread.events) |->
                       [type |-> thread.events[k].type, data |-> thread.events[k].data]],
     metadata  |-> <<>>]

\* Thread(**doc) of MongoMemoryStore.get
ThreadOfDoc(doc) ==
    [exc |-> "None",
     value |-> Thread(doc.thread_id,
                   [k \in 1..Len(doc.events) |->
                       Event(doc.events[k].type, doc.events[k].data)])]

\* ConversationMemoryStore.set: the backend's content afterwards, and the
\* exception raised
store_set(backend, content, thread) ==
    IF thread.thread_id = "" THEN [storage |-> content, exc |-> "ValueError"]
    ELSE IF backend \in {"file", "sql"}
    THEN [storage |-> Put(content, thread.thread_id, to_json(thread)), exc |-> "None"]
    ELSE [storage |-> Put(content, thread.thread_id, model_dump(thread)), exc |-> "None"]

\* ConversationMemoryStore.get
store_get(backend, content, thread_id) ==
    IF thread_id \notin DOMAIN content THEN [exc |-> "None", value |-> NoneV]
    ELSE IF backend \in {"file", "sql"} THEN from_json(content[thread_id])
    ELSE ThreadOfDoc(content[thread_id])

\* ConversationMemoryStore.delete
store_delete(backend, content, thread_id) ==
    IF thread_id \in DOMAIN content THEN Del(content, thread_id) ELSE content

\* ConversationMemoryStore.all of the file and the sql backend: every entry
\* is parsed; the exception of an entry that fails is raised
store_all(backend, content) ==
    LET parsed(k) == IF backend \in {"file", "sql"} THEN from_json(content[k])
                     ELSE ThreadOfDoc(content[k])
        bad == {k \in DOMAIN content : parsed(k).exc # "None"} IN
    IF bad # {} THEN [exc |-> parsed(CHOOSE k \in bad : TRUE).exc, value |-> NoneV]
    ELSE [exc |-> "None", value |-> DictV([k \in DOMAIN content |-> parsed(k).value])]

\* state.ThreadStore over its cache and its context directory.  A cached
\* entry is a reference: Live is the caller's thread object itself, a copy
\* is an object ThreadStore.get built from a file.
Live == [ref |-> "live"]
Copy(thread) == [ref |-> "copy", thread |-> thread]

\* ThreadStore.create(thread) with uuid4() giving thread_id
thread_store_create(cache, dir, thread_id, thread) ==
    [threads |-> Put(cache, thread_id, Live),
     storage |-> Put(dir, thread_id, to_json(thread)), exc |-> "None"]

\* ThreadStore.update(thread_id, thread)
thread_store_update(cache, dir, thread_id, thread) ==
    IF awaiting_human_response(thread.events) \notin {"True", "False"}
    THEN [threads |-> cache, storage |-> dir,
          exc |-> awaiting_human_response(thread.events)]
    ELSE [threads |-> Put(cache, thread_id, Live),
          storage |-> Put(dir, thread_id, to_json(thread)), exc |-> "None"]

\* ThreadStore.get(thread_id): live is the caller's thread as it is now.  A
\* file that does not parse is logged and answered with None
thread_store_get(cache, dir, thread_id, live) ==
    IF thread_id \in DOMAIN cache
    THEN [threads |-> cache,
          value |-> IF cache[thread_id] = Live THEN live ELSE cache[thread_id].thread]
    ELSE IF thread_id \notin DOMAIN dir \/ from_json(dir[thread_id]).exc # "None"
    THEN [threads |-> cache, value |-> NoneV]
    ELSE [threads |-> Put(cache, thread_id, Copy(from_json(dir[thread_id]).value)),
          value |-> from_json(dir[thread_id]).value]

\* The text of a JSON document as the pieces a write lays down one after
\* the other: the opening of the object with its thread_id, one piece per
\* event, and the closing of the object
Text(doc) ==
    <<[piece |-> "open", thread_id |-> doc.thread_id]>>
    \o [k \in 1..Len(doc.events) |-> [piece |-> "event", ev |-> doc.events[k]]]
    \o <<[piece |-> "close"]>>

\* json.loads: the document of a text that is one whole object, and
\* JSONDecodeError for every other text, the empty one included
json_loads(text) ==
    IF /\ Len(text) >= 2
       /\ text[1].piece = "open" /\ text[Len(text)].piece = "close"
       /\ \A k \in 2..(Len(text) - 1) : text[k].piece = "event"
    THEN [exc |-> "None",
          doc |-> [thread_id |-> text[1].thread_id,
                   events    |-> [k \in 1..(Len(text) - 2) |-> text[k + 1].ev],
                   metadata  |-> <<>>]]
    ELSE [exc |-> "JSONDecodeError", doc |-> NoneV]

\* Thread.from_json on a text: a JSONDecodeError is raised as ValueError
from_json_text(text) ==
    LET j == json_loads(text) IN
    IF j.exc # "None" THEN [exc |-> "ValueError", value |-> NoneV]
    ELSE from_json(j.doc)

\* The file of a thread_id in the context directory
NoFile == [exists |-> FALSE, text |-> <<>>]

\* file_path.open("w"): the file is created, or cut to length 0
open_w(f) == [exists |-> TRUE, text |-> <<>>]

\* f.write(text) and the close that flushes it: the text is laid down from
\* the handle's own position, the start of the file, over what is there
write_close(f, text) ==
    [exists |-> TRUE,
     text   |-> [k \in 1..Max(Len(f.text), Len(text)) |->
                    IF k <= Len(text) THEN text[k] ELSE f.text[k]]]

\* The concurrent callers of set
Writers == {"w1", "w2"}

----------------------------------------------------------------------------
(* Initial values of the variables a specification does not use. *)

LoopIdle ==
    /\ pc = "READY" /\ selection = "None" /\ arguments = <<>>
    /\ iter = 0 /\ entry = <<>> /\ max_events = NoneInt
RegistryEmpty ==
    /\ local_tools = <<>> /\ local_tool_defs = <<>>
    /\ mcp_tools = <<>> /\ all_tool_defs = <<>>
NothingStored ==
    /\ storage = <<>> /\ written = <<>> /\ opKey = ""
    /\ got = [exc |-> "None", value |-> NoneV]
    /\ found = [storage |-> <<>>, written |-> <<>>]
StoreEmpty == backend_type = "file" /\ NothingStored
ThreadEmpty ==
    /\ events = <<>> /\ lastOp = "init" /\ ret = "None"
    /\ arg = NoneInt /\ prevLen = 0
NothingYielded == yielded = <<>> /\ yields = 0
ConnClosed ==
    /\ connected = {} /\ entered = 0 /\ exited = 0 /\ sent = 0 /\ scope = "out"
ConnOpen ==
    /\ connected = Managers /\ entered = Cardinality(Managers) /\ exited = 0
    /\ sent = 0 /\ scope = "out"
NoRace ==
    /\ file = NoFile
    /\ writers = [w \in Writers |-> [pc |-> "idle", thread |-> NoneV]]
    /\ reader = "idle"
NoPair == loops = <<>> /\ runner = "None"
NothingCalled ==
    /\ step = "None" /\ executor = NoExecutor /\ registered = {}
    /\ NoRace /\ NoPair /\ result = NoneV /\ threads = <<>>
    /\ tool_metadata_cache = NoneV
RestIdle == NothingCalled /\ ConnClosed

----------------------------------------------------------------------------
(* ThreadSpec: the operations on one thread, called in any order. *)

ThreadTypes == {"user_input", "llm_response"}
ThreadData ==
    {StrV("hi"),
     DictV([intent |-> StrV("clarification")]), DictV([intent |-> StrV("add")])}
Providers == {"ok", "fail"}

TInit ==
    /\ ThreadEmpty /\ LoopIdle /\ RegistryEmpty /\ StoreEmpty
    /\ NothingYielded /\ RestIdle

TOther == UNCHANGED <<loopVars, regVars, storeVars, yieldVars, restVars>>

\* what every operation records about its call
Called(op, n) == lastOp' = op /\ arg' = n /\ prevLen' = Len(events)

TAddEvent ==
    /\ Len(events) < MaxThreadLen
    /\ \E type \in ThreadTypes, data \in ThreadData :
           events' = add_event(events, type, data)
    /\ Called("add_event", NoneInt) /\ ret' = "None"
    /\ TOther

TAwaiting ==
    /\ Called("awaiting_human_response", NoneInt)
    /\ ret' = awaiting_human_response(events)
    /\ UNCHANGED events
    /\ TOther

TSummarizeContext ==
    /\ \E max_ev \in -1..MaxThreadLen :
           /\ events' = summarize_context(events, max_ev)
           /\ Called("summarize_context", max_ev)
    /\ ret' = "None"
    /\ TOther

\* the dump of the default Response model's answer
LlmText == DictV([response |-> StrV("text")])

TRunLlm ==
    /\ \E mte \in {NoneInt} \cup 0..MaxThreadLen, provider \in Providers,
          add \in BOOLEAN, given \in BOOLEAN :
        LET r == IF given
                 THEN run_llm(events, mte, provider, LlmText, add)
                 ELSE run_llm_no_thread(events, provider) IN
        /\ ~given => mte = NoneInt /\ ~add
        /\ Len(r.events) <= MaxThreadLen
        /\ events' = r.events
        /\ Called("run_llm", mte) /\ ret' = r.exc
    /\ TOther

TSummarizeWithLlm ==
    /\ \E keep \in {1, KeepLastN}, provider \in Providers :
        LET r == summarize_thread_with_llm(events, keep, provider, "summary") IN
        /\ Len(r.events) <= MaxThreadLen
        /\ events' = r.events
        /\ Called("summarize_thread_with_llm", keep) /\ ret' = r.exc
    /\ TOther

TNext ==
    \/ TAddEvent
    \/ TAwaiting
    \/ TSummarizeContext
    \/ TRunLlm
    \/ TSummarizeWithLlm

ThreadSpec == TInit /\ [][TNext]_vars

----------------------------------------------------------------------------
(* Spec: a registry is filled at startup, a caller appends user input to a *)
(* thread and runs agent_loop over it.  The generator is at READY before   *)
(* its first step, at SELECT, FINAL, FILL or DISPATCH when that call is    *)
(* its next step, and at DONE_FINAL, CLARIFY (it returned) or ERROR (it    *)
(* raised) when it is over.  The registry is not touched and the caller    *)
(* does not write to the thread while a generator is running; between      *)
(* invocations the caller appends a user_input and invokes the loop again. *)

Idle == {"READY", "DONE_FINAL", "CLARIFY", "ERROR"}
IntentUniverse == ToolNames \cup {"done", "clarification", "nope"}
Summaries == {NoneV, StrV("s")}

\* what the caller answers a clarification request with: a text, or a
\* mapping that itself carries an intent
UserInputs == {StrV("hi"), DictV([intent |-> StrV("clarification")])}

\* the values of AgentConfig.max_events_before_summarization tried: unset,
\* zero, and a threshold a conversation of two turns exceeds
Thresholds == {NoneInt, 0, 2}

CurrentRegistry == Registry(local_tools, local_tool_defs, mcp_tools, all_tool_defs)

SetRegistry(reg) ==
    /\ local_tools' = reg.local_tools
    /\ local_tool_defs' = reg.local_tool_defs
    /\ mcp_tools' = reg.mcp_tools
    /\ all_tool_defs' = reg.all_tool_defs

\* agent_loop returning on everything that is not DoneForNow; the amended C1
\* does not hold of it
after_select_returns(returns) ==
    IF returns = "DoneForNow" THEN "FINAL" ELSE "CLARIFY"

\* where agent_loop goes with what select_tool returned
after_select(returns) ==
    IF returns = "DoneForNow" THEN "FINAL"
    ELSE IF returns = "ClarificationRequest" THEN "CLARIFY"
    ELSE "FILL"

\* agent_loop yielding once after every selection; the amended C16 does not
\* hold of it
yields_after_select_once(returns) == 1

\* the yields between select_tool and the next step or the return: the one
\* after the selection and, on a ClarificationRequest, the one before return
yields_after_select(returns) ==
    IF returns = "ClarificationRequest" THEN 2 ELSE 1

\* `yield thread` n times after a step that raised exc or nothing: the
\* consumer is handed the thread object itself, as the step left it
Yield(exc, n) ==
    /\ yields' = IF exc = "None" THEN n ELSE 0
    /\ yielded' = IF exc = "None" THEN events' ELSE yielded

Init ==
    /\ ThreadEmpty /\ RegistryEmpty /\ StoreEmpty
    /\ pc = "READY" /\ selection = "None" /\ arguments = <<>>
    /\ iter = 0 /\ entry = <<>>
    /\ max_events \in Thresholds
    /\ NothingYielded /\ NothingCalled /\ ConnOpen

\* ToolRegistry.add_tool
AddTool ==
    /\ pc = "READY" /\ iter = 0
    /\ \E tool \in LocalItems : SetRegistry(register_local_tool(CurrentRegistry, tool))
    /\ Called("add_tool", NoneInt) /\ ret' = "None"
    /\ UNCHANGED <<events, loopVars, storeVars, yieldVars, restVars>>

\* ToolRegistry.load_mcp_tools
LoadMcpTools ==
    /\ pc = "READY" /\ iter = 0
    /\ SetRegistry(load_mcp_tools(CurrentRegistry, "m1", RemoteTools, Len(RemoteTools)))
    /\ Called("load_mcp_tools", NoneInt) /\ ret' = "None"
    /\ UNCHANGED <<events, loopVars, storeVars, yieldVars, restVars>>

\* the caller's thread.add_event("user_input", ...), between invocations
AddUserInput ==
    /\ pc \in Idle
    /\ Cardinality({k \in 1..Len(events) : events[k].type = "user_input"}) < MaxUserEvents
    /\ \E data \in IF pc = "CLARIFY" THEN UserInputs ELSE {StrV("hi")} :
           events' = add_event(events, "user_input", data)
    /\ pc' = "READY"
    /\ Called("add_event", NoneInt) /\ ret' = "None"
    /\ UNCHANGED <<selection, arguments, iter, entry, max_events>>
    /\ UNCHANGED <<regVars, storeVars, yieldVars, restVars>>

\* agent_loop up to its first yield: the summarization check
Enter ==
    /\ pc = "READY"
    /\ entry' = events
    /\ Called("agent_loop", NoneInt)
    /\ IF should_summarize(max_events, Len(events))
       THEN \E provider \in Providers :
                LET r == summarize_thread_with_llm(events, KeepLastN, provider, "summary") IN
                /\ events' = r.events
                /\ ret' = r.exc
                /\ pc' = IF r.exc = "None" THEN "SELECT" ELSE "ERROR"
                /\ Yield(r.exc, 1)
       ELSE /\ ret' = "None" /\ pc' = "SELECT" /\ UNCHANGED events
            /\ Yield("None", 1)
    /\ selection' = "None" /\ arguments' = <<>>
    /\ UNCHANGED <<iter, max_events, regVars, storeVars, restVars>>

\* step 1 of the loop: select_tool, then the yield
Select ==
    /\ pc = "SELECT" /\ iter < MaxIter
    /\ \E provider \in Providers, intent \in IntentUniverse :
           LET r == select_tool(events, all_tool_defs, provider, intent, "r") IN
           /\ events' = r.events
           /\ ret' = r.exc
           /\ selection' = IF r.exc = "None" THEN intent ELSE "None"
           /\ pc' = IF r.exc = "None" THEN after_select(r.returns) ELSE "ERROR"
           /\ Yield(r.exc, yields_after_select(r.returns))
    /\ iter' = iter + 1
    /\ Called("select_tool", NoneInt)
    /\ UNCHANGED <<arguments, entry, max_events, regVars, storeVars, restVars>>

\* step 2 on DoneForNow: _generate_final_response, the yield and the return
Final ==
    /\ pc = "FINAL"
    /\ \E provider \in Providers, summary \in Summaries :
           LET r == generate_final_response(events, provider, "m", summary) IN
           /\ events' = r.events
           /\ ret' = r.exc
           /\ pc' = IF r.exc = "None" THEN "DONE_FINAL" ELSE "ERROR"
           /\ Yield(r.exc, 1)
    /\ Called("generate_final_response", NoneInt)
    /\ UNCHANGED <<selection, arguments, iter, entry, max_events, regVars, storeVars, restVars>>

\* step 3: fill_parameters, then the yield
Fill ==
    /\ pc = "FILL"
    /\ \E provider \in Providers,
          raw \in IF selection \in DOMAIN all_tool_defs
                  THEN RawAnswers(create_model_from_tool_schema(all_tool_defs[selection]))
                  ELSE {<<>>} :
           LET r == fill_parameters(events, all_tool_defs, selection, provider, raw) IN
           /\ provider = "fail" => raw = <<>>
           /\ events' = r.events
           /\ ret' = r.exc
           /\ arguments' = r.arguments
           /\ pc' = IF r.exc = "None" THEN "DISPATCH" ELSE "ERROR"
           /\ Yield(r.exc, 1)
    /\ Called("fill_parameters", NoneInt)
    /\ UNCHANGED <<selection, iter, entry, max_events, regVars, storeVars, restVars>>

\* step 4: execute_tool, then the yield
Dispatch ==
    /\ pc = "DISPATCH"
    /\ \E outcome \in {"ok", "raise"} :
           LET r == execute_tool(events, CurrentRegistry, selection, arguments, outcome) IN
           /\ events' = r.events
           /\ ret' = r.exc
           /\ pc' = IF r.exc = "None" THEN "SELECT" ELSE "ERROR"
           /\ Yield(r.exc, 1)
    /\ Called("execute_tool", NoneInt)
    /\ UNCHANGED <<selection, arguments, iter, entry, max_events, regVars, storeVars, restVars>>

\* the task driving agent_loop is cancelled: CancelledError is raised where
\* the generator stands, at the yield it is suspended at or at the await of
\* its next step (the Gateway call, or the dispatch after the tool_call
\* event was appended); no except clause of the loop catches it.  A
\* cancelled invocation is left at CANCELLED and not followed further.
Cancel ==
    /\ pc \in {"SELECT", "FINAL", "FILL", "DISPATCH"} /\ iter < MaxIter
    /\ \E at \in {"yield", "await"} :
           events' = IF at = "await" /\ pc = "DISPATCH"
                     THEN execute_tool(events, CurrentRegistry, selection,
                                       arguments, "raise").events
                     ELSE events
    /\ pc' = "CANCELLED" /\ ret' = "CancelledError"
    /\ Yield("CancelledError", 0)
    /\ Called("cancel", NoneInt)
    /\ UNCHANGED <<selection, arguments, iter, entry, max_events, regVars, storeVars, restVars>>

Next ==
    \/ AddTool
    \/ LoadMcpTools
    \/ AddUserInput
    \/ Enter
    \/ Select
    \/ Final
    \/ Fill
    \/ Dispatch
    \/ Cancel

Spec == Init /\ [][Next]_vars

----------------------------------------------------------------------------
(* StoreSpec: set, get and delete on one ConversationMemoryStore, in any    *)
(* order, over threads with and without a thread_id and events with and    *)
(* without a payload.                                                      *)

Backends == {"file", "sql", "mongo"}
ThreadIds == {"", "t1", "t2"}
StoredEvents ==
    {Event("user_input", StrV("hi")), Event("user_input", NoneV),
     Event("llm_response", DictV([intent |-> StrV("clarification")])),
     Event("tool_response", IntV(3))}
StoredThreads ==
    {Thread(id, evs) : id \in ThreadIds,
                       evs \in UNION {[1..n -> StoredEvents] : n \in 0..MaxStoredLen}}

SInit ==
    /\ ThreadEmpty /\ LoopIdle /\ RegistryEmpty
    /\ backend_type \in Backends
    /\ NothingStored
    /\ NothingYielded /\ RestIdle

SOther ==
    UNCHANGED <<events, arg, prevLen, loopVars, regVars, backend_type, yieldVars, restVars>>

Snapshot == [storage |-> storage, written |-> written]

SSet ==
    /\ \E thread \in StoredThreads :
        LET r == store_set(backend_type, storage, thread) IN
        /\ storage' = r.storage
        /\ ret' = r.exc
        /\ written' = IF r.exc = "None" THEN Put(written, thread.thread_id, thread)
                      ELSE written
        /\ opKey' = thread.thread_id
    /\ lastOp' = "set" /\ found' = Snapshot
    /\ UNCHANGED got
    /\ SOther

SGet ==
    /\ \E thread_id \in ThreadIds :
        /\ got' = store_get(backend_type, storage, thread_id)
        /\ opKey' = thread_id
    /\ ret' = got'.exc
    /\ lastOp' = "get" /\ found' = Snapshot
    /\ UNCHANGED <<storage, written>>
    /\ SOther

SDelete ==
    /\ \E thread_id \in ThreadIds :
        /\ storage' = store_delete(backend_type, storage, thread_id)
        /\ written' = IF thread_id \in DOMAIN written THEN Del(written, thread_id)
                      ELSE written
        /\ opKey' = thread_id
    /\ ret' = "None"
    /\ lastOp' = "delete" /\ found' = Snapshot
    /\ UNCHANGED got
    /\ SOther

SNext ==
    \/ SSet
    \/ SGet
    \/ SDelete

StoreSpec == SInit /\ [][SNext]_vars

----------------------------------------------------------------------------
(* JsonSpec: a caller builds a thread with add_event, a step label given   *)
(* with every event, and then passes it through to_json and from_json.     *)

JInit ==
    /\ ThreadEmpty /\ LoopIdle /\ RegistryEmpty /\ StoreEmpty
    /\ NothingYielded /\ RestIdle

JOther ==
    UNCHANGED <<arg, loopVars, regVars, yieldVars, executor, registered, connVars,
                raceVars, pairVars, result, threads, tool_metadata_cache,
                backend_type, storage, written,
                opKey, found>>

\* thread.add_event(type, data, step=label)
JAddEvent ==
    /\ lastOp # "from_json" /\ Len(events) < MaxJsonLen
    /\ \E type \in {"user_input", "tool_response"},
          data \in {NoneV, StrV("hi"), IntV(3), DictV([intent |-> StrV("add")])},
          label \in {"addition", "final"} :
           /\ events' = add_event_step(events, type, data, label)
           /\ step' = label
    /\ lastOp' = "add_event" /\ ret' = "None" /\ prevLen' = Len(events)
    /\ UNCHANGED got
    /\ JOther

\* Thread.from_json(thread.to_json())
JRoundTrip ==
    /\ lastOp # "from_json"
    /\ got' = from_json(to_json(Thread("t1", events)))
    /\ ret' = got'.exc
    /\ lastOp' = "from_json" /\ prevLen' = Len(events)
    /\ UNCHANGED <<events, step>>
    /\ JOther

JNext ==
    \/ JAddEvent
    \/ JRoundTrip

JsonSpec == JInit /\ [][JNext]_vars

----------------------------------------------------------------------------
(* RegistrySpec: tools are registered from local objects and from the two  *)
(* connected tool servers, in any order, and names are dispatched through  *)
(* ToolRegistry.execute_tool and Agent.execute_tool.  lastOp, ret,         *)
(* selection (the name dispatched), executor and registered describe the   *)
(* last call only.                                                         *)

\* what the caller hands to add_tool, two of them under the same name
LocalChoices == {FuncAdd, ToolAdd, ToolSearch}

\* what list_tools() of either server answers
RemoteCatalog == <<RemoteEcho, RemoteAdd>>

\* the names and the arguments dispatched
DispatchNames == ToolNames \cup {"nope"}
DispatchArgs == [a |-> IntV(3), b |-> IntV(3)]

RInit ==
    /\ ThreadEmpty /\ LoopIdle /\ RegistryEmpty /\ StoreEmpty
    /\ NothingYielded /\ NothingCalled /\ ConnOpen

ROther ==
    UNCHANGED <<arg, pc, arguments, iter, entry, max_events, storeVars, yieldVars,
                step, connVars, raceVars, pairVars, threads,
                tool_metadata_cache>>

\* ToolRegistry.add_tool(tool)
RAddTool ==
    /\ \E tool \in LocalChoices :
           /\ SetRegistry(register_local_tool(CurrentRegistry, tool))
           /\ registered' = {[name |-> tool.name, tool_def |-> LocalToolDef(tool),
                              by |-> [origin |-> "local", tool |-> tool]]}
    /\ lastOp' = "add_tool" /\ ret' = "None" /\ prevLen' = Len(events)
    /\ selection' = "None" /\ executor' = NoExecutor /\ result' = NoneV
    /\ UNCHANGED events
    /\ ROther

\* ToolRegistry.load_mcp_tools(mcp_manager)
RLoadMcpTools ==
    /\ \E m \in Managers :
           /\ SetRegistry(load_mcp_tools(CurrentRegistry, m, RemoteCatalog,
                                         Len(RemoteCatalog)))
           /\ registered' =
                  {[name |-> RemoteCatalog[k].name,
                    tool_def |-> ToolDefinition(RemoteCatalog[k].name,
                                                RemoteCatalog[k].inputSchema),
                    by |-> [origin |-> "mcp", manager |-> m]] :
                   k \in 1..Len(RemoteCatalog)}
    /\ lastOp' = "load_mcp_tools" /\ ret' = "None" /\ prevLen' = Len(events)
    /\ selection' = "None" /\ executor' = NoExecutor /\ result' = NoneV
    /\ UNCHANGED events
    /\ ROther

\* ToolRegistry.execute_tool(name, arguments)
RExecuteTool ==
    /\ \E name \in DispatchNames, outcome \in {"ok", "raise"} :
           LET r == registry_execute_tool(CurrentRegistry, name, DispatchArgs, outcome) IN
           /\ ret' = r.exc
           /\ executor' = r.executor
           /\ selection' = name
           /\ result' = r.result
    /\ lastOp' = "ToolRegistry.execute_tool" /\ prevLen' = Len(events)
    /\ registered' = {}
    /\ UNCHANGED <<events, regVars>>
    /\ ROther

\* Agent.execute_tool(name, arguments, thread, add_event=True)
RAgentExecuteTool ==
    /\ Cardinality({k \in 1..Len(events) : events[k].type = "tool_call"}) < MaxDispatches
    /\ \E name \in DispatchNames, outcome \in {"ok", "raise"} :
           LET r == execute_tool(events, CurrentRegistry, name, DispatchArgs, outcome) IN
           /\ events' = r.events
           /\ ret' = r.exc
           /\ executor' = Executor(CurrentRegistry, name)
           /\ selection' = name
    /\ lastOp' = "Agent.execute_tool" /\ prevLen' = Len(events)
    /\ registered' = {} /\ result' = NoneV
    /\ UNCHANGED regVars
    /\ ROther

\* ToolRegistry.remove_tool(name)
RRemoveTool ==
    /\ \E name \in DispatchNames :
           LET r == remove_tool(CurrentRegistry, name) IN
           /\ SetRegistry(r.reg)
           /\ ret' = r.exc
           /\ selection' = name
    /\ lastOp' = "remove_tool" /\ prevLen' = Len(events)
    /\ registered' = {} /\ executor' = NoExecutor /\ result' = NoneV
    /\ UNCHANGED events
    /\ ROther

RNext ==
    \/ RAddTool
    \/ RLoadMcpTools
    \/ RRemoveTool
    \/ RExecuteTool
    \/ RAgentExecuteTool

RegistrySpec == RInit /\ [][RNext]_vars

----------------------------------------------------------------------------
(* RemoteSpec: the tools of a connected tool server are loaded into a      *)
(* registry, and ToolRegistry.execute_tool is called on their names; the   *)
(* server answers with results of every shape, or the call raises.         *)

RemoteRegistry ==
    load_mcp_tools(Registry(<<>>, <<>>, <<>>, <<>>), "m1", RemoteCatalog,
                   Len(RemoteCatalog))

NInit ==
    /\ ThreadEmpty /\ LoopIdle /\ StoreEmpty
    /\ local_tools = RemoteRegistry.local_tools
    /\ local_tool_defs = RemoteRegistry.local_tool_defs
    /\ mcp_tools = RemoteRegistry.mcp_tools
    /\ all_tool_defs = RemoteRegistry.all_tool_defs
    /\ NothingYielded /\ NothingCalled /\ ConnOpen

\* ToolRegistry.execute_tool(name, arguments) on a remote tool
NExecuteTool ==
    /\ \E name \in DOMAIN mcp_tools, outcome \in {"ok", "raise"}, raw_result \in RawResults :
           LET r == registry_execute_tool(CurrentRegistry, name, DispatchArgs, outcome) IN
           /\ ret' = r.exc
           /\ executor' = r.executor
           /\ selection' = name
           /\ result' = IF r.exc = "None" THEN mcp_tool_result(raw_result) ELSE NoneV
    /\ lastOp' = "ToolRegistry.execute_tool" /\ prevLen' = Len(events)
    /\ UNCHANGED <<events, arg, pc, arguments, iter, entry, max_events, regVars,
                    storeVars, yieldVars, step, registered, connVars, raceVars,
                    pairVars, threads, tool_metadata_cache>>

NNext == NExecuteTool

RemoteSpec == NInit /\ [][NNext]_vars

----------------------------------------------------------------------------
(* LocalSpec: local tools of every shape are registered with add_tool, and *)
(* ToolRegistry.execute_tool is called on their names: functions and tool  *)
(* objects, plain or coroutine, returning a bare value or a ToolResult.    *)

LocalShapes ==
    {[kind |-> kind, name |-> name,
      params |-> <<Param("a", "float", FALSE), Param("b", "float", FALSE)>>,
      is_async |-> is_async, returns |-> returns] :
     kind \in {"function", "BaseTool"}, name \in {"add", "search"},
     is_async \in BOOLEAN,
     returns \in {IntV(3), NoneV, ToolResultV("out", IntV(3))}}

LInit ==
    /\ ThreadEmpty /\ LoopIdle /\ RegistryEmpty /\ StoreEmpty
    /\ NothingYielded /\ NothingCalled /\ ConnOpen

LOther ==
    UNCHANGED <<events, arg, pc, arguments, iter, entry, max_events, storeVars,
                yieldVars, step, registered, connVars, raceVars, pairVars, threads,
                tool_metadata_cache>>

\* ToolRegistry.add_tool(tool)
LAddTool ==
    /\ \E tool \in LocalShapes :
           SetRegistry(register_local_tool(CurrentRegistry, tool))
    /\ lastOp' = "add_tool" /\ ret' = "None" /\ prevLen' = Len(events)
    /\ selection' = "None" /\ executor' = NoExecutor /\ result' = NoneV
    /\ LOther

\* ToolRegistry.execute_tool(name, arguments)
LExecuteTool ==
    /\ \E name \in DOMAIN local_tools, outcome \in {"ok", "raise"} :
           LET r == registry_execute_tool(CurrentRegistry, name, DispatchArgs, outcome) IN
           /\ ret' = r.exc
           /\ executor' = r.executor
           /\ selection' = name
           /\ result' = r.result
    /\ lastOp' = "ToolRegistry.execute_tool" /\ prevLen' = Len(events)
    /\ UNCHANGED regVars
    /\ LOther

LNext ==
    \/ LAddTool
    \/ LExecuteTool

LocalSpec == LInit /\ [][LNext]_vars

----------------------------------------------------------------------------
(* LiveSpec: a caller holds one thread object, appends events to it and    *)
(* hands it to a ConversationMemoryStore and, with the file backend, to a  *)
(* ThreadStore over the same context directory (both default to the        *)
(* directory "context"); the stores are read in between.  events are the   *)
(* events of the caller's thread, written is what each thread_id was last  *)
(* stored with.                                                            *)

LiveId == "t1"      \* thread_id of the caller's thread
Uuid == "u1"        \* what uuid4() answers in ThreadStore.create
LiveIds == {LiveId, Uuid}
LiveThread == Thread(LiveId, events)

VInit ==
    /\ ThreadEmpty /\ LoopIdle /\ RegistryEmpty
    /\ backend_type \in Backends
    /\ NothingStored
    /\ NothingYielded /\ RestIdle

VOther ==
    UNCHANGED <<arg, loopVars, regVars, backend_type, found, yieldVars, step,
                executor, registered, connVars, raceVars, pairVars, result,
                tool_metadata_cache>>

\* thread.add_event(type, data)
VAddEvent ==
    /\ Len(events) < MaxLiveLen
    /\ \E data \in {StrV("hi"), NoneV} : events' = add_event(events, "user_input", data)
    /\ lastOp' = "add_event" /\ ret' = "None" /\ prevLen' = Len(events)
    /\ UNCHANGED <<storage, written, opKey, got, threads,
                tool_metadata_cache>>
    /\ VOther

\* ConversationMemoryStore.set(thread)
VSet ==
    /\ LET r == store_set(backend_type, storage, LiveThread) IN
        /\ storage' = r.storage /\ ret' = r.exc
        /\ written' = IF r.exc = "None" THEN Put(written, LiveId, LiveThread)
                      ELSE written
    /\ opKey' = LiveId
    /\ lastOp' = "set" /\ prevLen' = Len(events)
    /\ UNCHANGED <<events, got, threads,
                tool_metadata_cache>>
    /\ VOther

\* ConversationMemoryStore.get(thread_id)
VGet ==
    /\ \E thread_id \in LiveIds :
        /\ got' = store_get(backend_type, storage, thread_id)
        /\ opKey' = thread_id
    /\ ret' = got'.exc
    /\ lastOp' = "get" /\ prevLen' = Len(events)
    /\ UNCHANGED <<events, storage, written, threads,
                tool_metadata_cache>>
    /\ VOther

\* ConversationMemoryStore.delete(thread_id)
VDelete ==
    /\ \E thread_id \in LiveIds :
        /\ storage' = store_delete(backend_type, storage, thread_id)
        /\ written' = IF thread_id \in DOMAIN written THEN Del(written, thread_id)
                      ELSE written
        /\ opKey' = thread_id
    /\ ret' = "None"
    /\ lastOp' = "delete" /\ prevLen' = Len(events)
    /\ UNCHANGED <<events, got, threads,
                tool_metadata_cache>>
    /\ VOther

\* ConversationMemoryStore.all()
VAll ==
    /\ got' = store_all(backend_type, storage)
    /\ ret' = got'.exc
    /\ lastOp' = "all" /\ prevLen' = Len(events)
    /\ UNCHANGED <<events, storage, written, opKey, threads,
                tool_metadata_cache>>
    /\ VOther

\* ThreadStore.create(thread)
VCreate ==
    /\ backend_type = "file" /\ Uuid \notin DOMAIN threads
    /\ LET r == thread_store_create(threads, storage, Uuid, LiveThread) IN
        threads' = r.threads /\ storage' = r.storage /\ ret' = r.exc
    /\ written' = Put(written, Uuid, LiveThread)
    /\ opKey' = Uuid
    /\ lastOp' = "ThreadStore.create" /\ prevLen' = Len(events)
    /\ UNCHANGED <<events, got>>
    /\ VOther

\* ThreadStore.update(thread_id, thread)
VUpdate ==
    /\ backend_type = "file"
    /\ \E thread_id \in LiveIds :
        LET r == thread_store_update(threads, storage, thread_id, LiveThread) IN
        /\ threads' = r.threads /\ storage' = r.storage /\ ret' = r.exc
        /\ written' = IF r.exc = "None" THEN Put(written, thread_id, LiveThread)
                      ELSE written
        /\ opKey' = thread_id
    /\ lastOp' = "ThreadStore.update" /\ prevLen' = Len(events)
    /\ UNCHANGED <<events, got>>
    /\ VOther

\* ThreadStore.get(thread_id)
VStoreGet ==
    /\ backend_type = "file"
    /\ \E thread_id \in LiveIds :
        LET r == thread_store_get(threads, storage, thread_id, LiveThread) IN
        /\ threads' = r.threads
        /\ got' = [exc |-> "None", value |-> r.value]
        /\ opKey' = thread_id
    /\ ret' = "None"
    /\ lastOp' = "ThreadStore.get" /\ prevLen' = Len(events)
    /\ UNCHANGED <<events, storage, written>>
    /\ VOther

VNext ==
    \/ VAddEvent
    \/ VSet
    \/ VGet
    \/ VDelete
    \/ VAll
    \/ VCreate
    \/ VUpdate
    \/ VStoreGet

LiveSpec == VInit /\ [][VNext]_vars

----------------------------------------------------------------------------
(* CatalogSpec: one Agent runs the steps of agent_loop over a thread while *)
(* tools are added to and removed from its registry, tools named like the  *)
(* terminal intents included.  Every call of the Gateway (select_tool,     *)
(* fill_parameters on a known tool, _generate_final_response) formats the  *)
(* tool listing of its system message.                                     *)

\* a BaseTool instance with that name whose execute is
\*     async def execute(self) -> ToolResult
ToolNamed(name) ==
    [kind |-> "BaseTool", name |-> name, params |-> <<>>,
     is_async |-> TRUE, returns |-> ToolResultV("out", StrV("out"))]
CatalogNames == {"ping", "done", "clarification"}

GInit ==
    /\ ThreadEmpty /\ RegistryEmpty /\ StoreEmpty
    /\ pc = "SELECT" /\ selection = "None" /\ arguments = <<>>
    /\ iter = 0 /\ entry = <<>> /\ max_events = NoneInt
    /\ NothingYielded /\ NothingCalled /\ ConnOpen

GOther ==
    UNCHANGED <<arg, entry, max_events, storeVars, yieldVars, step, executor,
                registered, connVars, raceVars, pairVars, result, threads>>

\* ToolRegistry.add_tool(tool)
GAddTool ==
    /\ \E name \in CatalogNames :
           /\ name \notin DOMAIN local_tools
           /\ SetRegistry(register_local_tool(CurrentRegistry, ToolNamed(name)))
    /\ lastOp' = "add_tool" /\ ret' = "None" /\ prevLen' = Len(events)
    /\ UNCHANGED <<events, pc, selection, arguments, iter, tool_metadata_cache>>
    /\ GOther

\* ToolRegistry.remove_tool(name)
GRemoveTool ==
    /\ \E name \in DOMAIN local_tools :
           LET r == remove_tool(CurrentRegistry, name) IN
           SetRegistry(r.reg) /\ ret' = r.exc
    /\ lastOp' = "remove_tool" /\ prevLen' = Len(events)
    /\ UNCHANGED <<events, pc, selection, arguments, iter, tool_metadata_cache>>
    /\ GOther

\* selection = await self.select_tool(tools=None, thread=thread)
GSelect ==
    /\ pc = "SELECT" /\ iter < MaxCatalogIter
    /\ \E intent \in CatalogNames :
           LET r == select_tool(events, all_tool_defs, "ok", intent, "r") IN
           /\ events' = r.events /\ ret' = r.exc
           /\ pc' = IF r.exc = "None" THEN after_select(r.returns) ELSE "ERROR"
           /\ selection' = intent
    /\ tool_metadata_cache' = format_tool_metadata(tool_metadata_cache, all_tool_defs)
    /\ iter' = iter + 1
    /\ lastOp' = "select_tool" /\ prevLen' = Len(events)
    /\ UNCHANGED <<regVars, arguments>>
    /\ GOther

\* final_response = await self._generate_final_response(thread)
GFinal ==
    /\ pc = "FINAL"
    /\ LET r == generate_final_response(events, "ok", "m", NoneV) IN
        /\ events' = r.events /\ ret' = r.exc
        /\ pc' = IF r.exc = "None" THEN "DONE_FINAL" ELSE "ERROR"
    /\ tool_metadata_cache' = format_tool_metadata(tool_metadata_cache, all_tool_defs)
    /\ lastOp' = "generate_final_response" /\ prevLen' = Len(events)
    /\ UNCHANGED <<regVars, selection, arguments, iter>>
    /\ GOther

\* arguments = await self.fill_parameters(selection.intent, thread): the
\* Gateway is called once the tool definition is found
GFill ==
    /\ pc = "FILL"
    /\ LET r == fill_parameters(events, all_tool_defs, selection, "ok", <<>>) IN
        /\ events' = r.events /\ ret' = r.exc
        /\ arguments' = r.arguments
        /\ pc' = IF r.exc = "None" THEN "DISPATCH" ELSE "ERROR"
    /\ tool_metadata_cache' =
           IF selection \in DOMAIN all_tool_defs
           THEN format_tool_metadata(tool_metadata_cache, all_tool_defs)
           ELSE tool_metadata_cache
    /\ lastOp' = "fill_parameters" /\ prevLen' = Len(events)
    /\ UNCHANGED <<regVars, selection, iter>>
    /\ GOther

\* result = await self.execute_tool(selection.intent, arguments, thread)
GDispatch ==
    /\ pc = "DISPATCH"
    /\ LET r == execute_tool(events, CurrentRegistry, selection, arguments, "ok") IN
        /\ events' = r.events /\ ret' = r.exc
        /\ pc' = IF r.exc = "None" THEN "SELECT" ELSE "ERROR"
    /\ lastOp' = "Agent.execute_tool" /\ prevLen' = Len(events)
    /\ UNCHANGED <<regVars, selection, arguments, iter, tool_metadata_cache>>
    /\ GOther

GNext ==
    \/ GAddTool
    \/ GRemoveTool
    \/ GSelect
    \/ GFinal
    \/ GFill
    \/ GDispatch

CatalogSpec == GInit /\ [][GNext]_vars

----------------------------------------------------------------------------
(* ConnSpec: one MCPConnectionManager is connected, disconnected, used in  *)
(* an `async with` block and called, directly and through a registry, in   *)
(* any order.  found holds the connection as the last call found it.       *)

TheManager == "m1"

CurrentConn == Conn(connected, entered, exited, sent)

SetConn(c) ==
    /\ connected' = c.connected /\ entered' = c.entered
    /\ exited' = c.exited /\ sent' = c.sent
    /\ c.entered <= MaxCalls /\ c.sent <= MaxCalls
    /\ found' = CurrentConn

CInit ==
    /\ ThreadEmpty /\ LoopIdle /\ RegistryEmpty
    /\ backend_type = "file" /\ storage = <<>> /\ written = <<>> /\ opKey = ""
    /\ got = [exc |-> "None", value |-> NoneV]
    /\ found = Conn({}, 0, 0, 0)
    /\ NothingYielded /\ RestIdle

COther ==
    UNCHANGED <<events, arg, prevLen, pc, arguments, iter, entry, max_events,
                backend_type, storage, written, opKey, got, yieldVars, step, registered,
                raceVars, pairVars, result, threads,
                tool_metadata_cache>>

\* await manager.connect()
CConnect ==
    /\ \E outcome \in {"ok", "refused"} :
           LET r == manager_aenter(CurrentConn, TheManager, outcome) IN
           SetConn(r.conn) /\ ret' = r.exc
    /\ lastOp' = "connect"
    /\ UNCHANGED <<scope, regVars, selection, executor>>
    /\ COther

\* await manager.disconnect()
CDisconnect ==
    /\ SetConn(manager_aexit(CurrentConn, TheManager, "None"))
    /\ lastOp' = "disconnect" /\ ret' = "None"
    /\ UNCHANGED <<scope, regVars, selection, executor>>
    /\ COther

\* `async with manager:` entered
CEnterScope ==
    /\ scope = "out"
    /\ \E outcome \in {"ok", "refused"} :
           LET r == manager_aenter(CurrentConn, TheManager, outcome) IN
           /\ SetConn(r.conn) /\ ret' = r.exc
           /\ scope' = IF r.exc = "None" THEN "body" ELSE "out"
    /\ lastOp' = "__aenter__"
    /\ UNCHANGED <<regVars, selection, executor>>
    /\ COther

\* the block left: by its end, by an exception raised in it, or by the
\* cancellation of the task
CLeaveScope ==
    /\ scope = "body"
    /\ \E exc_type \in {"None", "BodyError", "CancelledError"} :
           /\ SetConn(manager_aexit(CurrentConn, TheManager, exc_type))
           /\ ret' = exc_type
    /\ scope' = "out"
    /\ lastOp' = "__aexit__"
    /\ UNCHANGED <<regVars, selection, executor>>
    /\ COther

\* await manager.list_tools()
CListTools ==
    /\ \E outcome \in {"ok", "raise"} :
           LET r == manager_list_tools(CurrentConn, TheManager, outcome) IN
           SetConn(r.conn) /\ ret' = r.exc
    /\ lastOp' = "list_tools"
    /\ UNCHANGED <<scope, regVars, selection, executor>>
    /\ COther

\* await manager.call_tool(name, arguments)
CCallTool ==
    /\ \E outcome \in {"ok", "raise"} :
           LET r == manager_call_tool(CurrentConn, TheManager, outcome) IN
           SetConn(r.conn) /\ ret' = r.exc
    /\ lastOp' = "call_tool"
    /\ UNCHANGED <<scope, regVars, selection, executor>>
    /\ COther

\* await registry.load_mcp_tools(manager)
CLoadMcpTools ==
    /\ LET r == manager_list_tools(CurrentConn, TheManager, "ok") IN
       /\ SetConn(r.conn) /\ ret' = r.exc
       /\ IF r.exc = "None"
          THEN SetRegistry(load_mcp_tools(CurrentRegistry, TheManager, RemoteTools,
                                          Len(RemoteTools)))
          ELSE UNCHANGED regVars
    /\ lastOp' = "load_mcp_tools"
    /\ UNCHANGED <<scope, selection, executor>>
    /\ COther

\* await registry.execute_tool("echo", arguments)
CExecuteTool ==
    /\ \E outcome \in {"ok", "raise"} :
           LET by == Executor(CurrentRegistry, "echo")
               c  == IF by.origin = "mcp"
                     THEN manager_call_tool(CurrentConn, by.manager, outcome)
                     ELSE [conn |-> CurrentConn, exc |-> "None"]
               r  == registry_execute_tool(CurrentRegistry, "echo", <<>>,
                         IF c.exc = "None" THEN "ok" ELSE "raise") IN
           /\ SetConn(c.conn)
           /\ ret' = IF c.exc # "None" THEN c.exc ELSE r.exc
           /\ executor' = by
    /\ selection' = "echo"
    /\ lastOp' = "ToolRegistry.execute_tool"
    /\ UNCHANGED <<scope, regVars>>
    /\ COther

CNext ==
    \/ CConnect
    \/ CDisconnect
    \/ CEnterScope
    \/ CLeaveScope
    \/ CListTools
    \/ CCallTool
    \/ CLoadMcpTools
    \/ CExecuteTool

ConnSpec == CInit /\ [][CNext]_vars

----------------------------------------------------------------------------
(* RaceSpec: two callers of set and one caller of get work on the same     *)
(* thread_id of one store at the same time, from threads or processes of   *)
(* their own, so that the steps of their calls interleave.  On the file    *)
(* backend a set is two steps, the open that cuts the file and the write   *)
(* that the close flushes, and a get is two, the existence test and the    *)
(* read; on the sql backend each call is one statement.                    *)

RaceBackends == {"file", "sql"}
RaceId == "t1"
RaceEvents == {Event("user_input", StrV("hi")), Event("tool_response", IntV(3))}
RaceThreads ==
    {Thread(RaceId, evs) : evs \in UNION {[1..n -> RaceEvents] : n \in 0..MaxRaceLen}}

XInit ==
    /\ ThreadEmpty /\ LoopIdle /\ RegistryEmpty
    /\ backend_type \in RaceBackends
    /\ NothingStored
    /\ NothingYielded /\ RestIdle

XOther ==
    UNCHANGED <<threadVars, loopVars, regVars, yieldVars, step, executor,
                registered, connVars, pairVars, result, threads, tool_metadata_cache,
                backend_type,
                written, opKey, found>>

\* set, file backend: with file_path.open("w") as f
XSetOpen(w) ==
    /\ backend_type = "file" /\ writers[w].pc = "idle"
    /\ \E thread \in RaceThreads :
        writers' = [writers EXCEPT ![w] = [pc |-> "opened", thread |-> thread]]
    /\ file' = open_w(file)
    /\ UNCHANGED <<storage, got, reader>>
    /\ XOther

\* set, file backend: f.write(thread.to_json()) and the end of the with block
XSetWrite(w) ==
    /\ writers[w].pc = "opened"
    /\ file' = write_close(file, Text(to_json(writers[w].thread)))
    /\ writers' = [writers EXCEPT ![w].pc = "done"]
    /\ UNCHANGED <<storage, got, reader>>
    /\ XOther

\* set, sql backend: REPLACE INTO threads and the commit
XSetSql(w) ==
    /\ backend_type = "sql" /\ writers[w].pc = "idle"
    /\ \E thread \in RaceThreads :
        /\ storage' = store_set(backend_type, storage, thread).storage
        /\ writers' = [writers EXCEPT ![w] = [pc |-> "done", thread |-> thread]]
    /\ UNCHANGED <<file, got, reader>>
    /\ XOther

\* get, file backend: if not file_path.exists(): return None
XGetExists ==
    /\ backend_type = "file" /\ reader = "idle"
    /\ reader' = IF file.exists THEN "opening" ELSE "done"
    /\ got' = IF file.exists THEN got ELSE [exc |-> "None", value |-> NoneV]
    /\ UNCHANGED <<file, storage, writers>>
    /\ XOther

\* get, file backend: return Thread.from_json(f.read())
XGetRead ==
    /\ reader = "opening"
    /\ got' = from_json_text(file.text)
    /\ reader' = "done"
    /\ UNCHANGED <<file, storage, writers>>
    /\ XOther

\* get, sql backend: the SELECT and Thread.from_json of its row
XGetSql ==
    /\ backend_type = "sql" /\ reader = "idle"
    /\ got' = store_get(backend_type, storage, RaceId)
    /\ reader' = "done"
    /\ UNCHANGED <<file, storage, writers>>
    /\ XOther

XNext ==
    \/ \E w \in Writers : XSetOpen(w)
    \/ \E w \in Writers : XSetWrite(w)
    \/ \E w \in Writers : XSetSql(w)
    \/ XGetExists
    \/ XGetRead
    \/ XGetSql

RaceSpec == XInit /\ [][XNext]_vars

----------------------------------------------------------------------------
(* PairSpec: one Agent with one filled ToolRegistry runs agent_loop over   *)
(* two threads at the same time; the steps of the two generators           *)
(* interleave at their awaits and yields.  selection and arguments are     *)
(* locals of each generator.                                               *)

LoopThreads == {"tA", "tB"}

\* the thread object agent_loop hands to select_tool, fill_parameters,
\* execute_tool and _generate_final_response: its own parameter; mutated
\* below as an attribute of the shared Agent
loop_thread_shared(t) == "tA"

loop_thread(t) == t

\* answered is the intent of the provider's answer to the last select_tool,
\* "None" before the first and when the provider gave no answer
Loop(evs, p, sel, args, n, ans) ==
    [events |-> evs, pc |-> p, selection |-> sel, arguments |-> args, iter |-> n,
     answered |-> ans]

\* the registry the Agent was built with
PairRegistry ==
    load_mcp_tools(register_local_tool(Registry(<<>>, <<>>, <<>>, <<>>), ToolSearch),
                   "m1", RemoteTools, Len(RemoteTools))

PInit ==
    /\ ThreadEmpty /\ LoopIdle /\ StoreEmpty
    /\ local_tools = PairRegistry.local_tools
    /\ local_tool_defs = PairRegistry.local_tool_defs
    /\ mcp_tools = PairRegistry.mcp_tools
    /\ all_tool_defs = PairRegistry.all_tool_defs
    /\ NothingYielded
    /\ step = "None" /\ executor = NoExecutor /\ registered = {}
    /\ ConnOpen /\ NoRace /\ result = NoneV /\ threads = <<>>
    /\ tool_metadata_cache = NoneV
    /\ loops = [t \in LoopThreads |->
                   Loop(<<Event("user_input", StrV(t))>>, "READY", "None", <<>>, 0, "None")]
    /\ runner = "None"

POther ==
    UNCHANGED <<threadVars, loopVars, regVars, storeVars, yieldVars, step,
                executor, registered, connVars, raceVars, result, threads,
                tool_metadata_cache>>

\* the step of the generator over thread t leaves the loop at l
PStep(t, l) ==
    /\ loops' = [loops EXCEPT ![loop_thread(t)] = l]
    /\ runner' = t
    /\ POther

\* agent_loop up to its first yield
PEnter(t) ==
    /\ loops[t].pc = "READY"
    /\ PStep(t, [loops[t] EXCEPT !.pc = "SELECT"])

PSelect(t) ==
    LET l == loops[t] IN
    /\ l.pc = "SELECT" /\ l.iter < MaxPairIter
    /\ \E provider \in Providers, intent \in IntentUniverse :
           LET r == select_tool(l.events, all_tool_defs, provider, intent, "r") IN
           PStep(t, Loop(r.events,
                         IF r.exc = "None" THEN after_select(r.returns) ELSE "ERROR",
                         IF r.exc = "None" THEN intent ELSE "None",
                         l.arguments, l.iter + 1,
                         IF provider = "ok" THEN intent ELSE "None"))

PFinal(t) ==
    LET l == loops[t] IN
    /\ l.pc = "FINAL"
    /\ \E provider \in Providers, summary \in Summaries :
           LET r == generate_final_response(l.events, provider, "m", summary) IN
           PStep(t, Loop(r.events, IF r.exc = "None" THEN "DONE_FINAL" ELSE "ERROR",
                         l.selection, l.arguments, l.iter, l.answered))

PFill(t) ==
    LET l == loops[t] IN
    /\ l.pc = "FILL"
    /\ \E provider \in Providers,
          raw \in IF l.selection \in DOMAIN all_tool_defs
                  THEN RawAnswers(create_model_from_tool_schema(all_tool_defs[l.selection]))
                  ELSE {<<>>} :
           LET r == fill_parameters(l.events, all_tool_defs, l.selection, provider, raw) IN
           /\ provider = "fail" => raw = <<>>
           /\ PStep(t, Loop(r.events, IF r.exc = "None" THEN "DISPATCH" ELSE "ERROR",
                            l.selection, r.arguments, l.iter, l.answered))

PDispatch(t) ==
    LET l == loops[t] IN
    /\ l.pc = "DISPATCH"
    /\ \E outcome \in {"ok", "raise"} :
           LET r == execute_tool(l.events, CurrentRegistry, l.selection,
                                 l.arguments, outcome) IN
           PStep(t, Loop(r.events, IF r.exc = "None" THEN "SELECT" ELSE "ERROR",
                         l.selection, l.arguments, l.iter, l.answered))

PNext ==
    \/ \E t \in LoopThreads : PEnter(t)
    \/ \E t \in LoopThreads : PSelect(t)
    \/ \E t \in LoopThreads : PFinal(t)
    \/ \E t \in LoopThreads : PFill(t)
    \/ \E t \in LoopThreads : PDispatch(t)

PairSpec == PInit /\ [][PNext]_vars

----------------------------------------------------------------------------
(* Claims about the operations on one thread, checked under ThreadSpec. *)

\* the predicate the specification gives for awaiting_human_response
LastIsClarificationResponse(evs) ==
    /\ evs # <<>>
    /\ evs[Len(evs)].type = "llm_response"
    /\ evs[Len(evs)].data.py = "dict"
    /\ DictGet(evs[Len(evs)].data.d, "intent") = StrV("clarification")

\* C3: for every thread, awaiting_human_response() returns true if and only
\* if the last event has type llm_response and its data is a mapping whose
\* intent equals 'clarification'.
C3_AwaitingIffClarificationResponse ==
    lastOp = "awaiting_human_response" =>
        /\ ret \in {"True", "False"}
        /\ (ret = "True") <=> LastIsClarificationResponse(events)

\* the last operation left the thread with fewer events than it found
Shortened == Len(events) < prevLen

\* C9 as stated: summarize_thread_with_llm is the only operation that ever
\* shortens thread.events.
C9_OnlySummarizeWithLlmRemoves ==
    Shortened => lastOp = "summarize_thread_with_llm"

\* C9 as amended: thread.events is shortened only by summarize_thread_with_llm,
\* by run_llm called with a max_thread_events other than None and 0, and by
\* Thread.summarize_context called with a max_events other than 0 that is
\* smaller than the length of the thread; add_event and
\* awaiting_human_response never shorten it.
C9_RemovingOperations ==
    /\ Shortened =>
           \/ lastOp = "summarize_thread_with_llm"
           \/ lastOp = "run_llm" /\ arg \notin {NoneInt, 0}
           \/ lastOp = "summarize_context" /\ arg # 0 /\ arg < prevLen
    /\ lastOp \in {"add_event", "awaiting_human_response"} => Len(events) >= prevLen

C9_Witness ==
    /\ Shortened
    /\ lastOp = "summarize_context"
    /\ Len(events) = arg

\* the inputs of run_llm tried on every thread
RunLlmInputs == ({NoneInt} \cup 0..MaxThreadLen) \X Providers \X BOOLEAN

\* the provider is reached and answers: the messages were built and the
\* provider call succeeded
ProviderSucceeds(evs, provider) ==
    build_messages(evs).exc = "None" /\ provider = "ok"

\* C27 as stated: run_llm appends exactly one llm_response event carrying
\* the validated response when the provider call succeeds, add_event is
\* true and a thread is given; in every other case it leaves thread.events
\* unchanged, and a provider failure surfaces as an error.
C27_RunLlmAppendsOrLeaves ==
    /\ \A x \in RunLlmInputs :
           LET r == run_llm(events, x[1], x[2], LlmText, x[3]) IN
           /\ (r.exc = "None" /\ x[3]) =>
                  r.events = Append(events, Event("llm_response", LlmText))
           /\ ~(r.exc = "None" /\ x[3]) => r.events = events
           /\ x[2] = "fail" => r.exc # "None"
    /\ \A provider \in Providers :
           run_llm_no_thread(events, provider).events = events

\* C27 as amended: run_llm first cuts the thread to its last
\* max_thread_events events when that argument is neither None nor 0; to
\* the events kept it appends exactly one llm_response event carrying the
\* validated response when the provider call succeeds and add_event is
\* true, and leaves them as they are in every other case; a provider
\* failure is raised as ValueError; without a thread no events change.
C27_RunLlmPrunesThenAppendsOrLeaves ==
    /\ \A x \in RunLlmInputs :
           LET r    == run_llm(events, x[1], x[2], LlmText, x[3])
               kept == IF x[1] \in {NoneInt, 0} THEN events ELSE LastN(events, x[1]) IN
           /\ r.exc = "None" <=> ProviderSucceeds(kept, x[2])
           /\ (r.exc = "None" /\ x[3]) =>
                  r.events = Append(kept, Event("llm_response", LlmText))
           /\ ~(r.exc = "None" /\ x[3]) => r.events = kept
           /\ (build_messages(kept).exc = "None" /\ x[2] = "fail") =>
                  r.exc = "ValueError"
    /\ \A provider \in Providers :
           run_llm_no_thread(events, provider).events = events

\* run_llm cut a thread of three events to two and appended the answer
C27_Witness ==
    /\ lastOp = "run_llm" /\ ret = "None"
    /\ arg = 2 /\ prevLen = 3 /\ Len(events) = 3
    /\ events[3] = Event("llm_response", LlmText)

\* C32: when the Gateway builds its message sequence from a thread, every
\* context_summary event of the thread is projected as a user message at
\* its position in the history, between the system message and the final
\* instruction message.
C32_SummaryProjectedAsUserMessage ==
    LET built == build_messages(events)
        summaries == {k \in 1..Len(events) : events[k].type = "context_summary"} IN
    summaries # {} =>
        /\ built.exc = "None"
        /\ built.messages[1].role = "system"
        /\ built.messages[Len(built.messages)].of = "prompt"
        /\ \A k \in summaries :
               /\ Len(MessageOf(events[k])) = 1
               /\ MessageOf(events[k])[1].role = "user"
               /\ built.messages[1 + Len(HistoryMessages(SubSeq(events, 1, k)))]
                      = MessageOf(events[k])[1]

----------------------------------------------------------------------------
(* Claims about agent_loop, checked under Spec. *)

Terminal == {"DONE_FINAL", "CLARIFY"}

\* the selections (llm_response events carrying a reason) the running
\* invocation has appended to the events it was entered with
SelectionsSinceEntry ==
    IF ~IsPrefix(entry, events) THEN 0
    ELSE Cardinality({k \in (Len(entry) + 1)..Len(events) :
            /\ events[k].type = "llm_response"
            /\ "reason" \in DOMAIN events[k].data.d})

\* C1 as stated: every invocation in which nothing raises reaches DONE_FINAL
\* or CLARIFY after a bounded number of SELECT -> FILL -> DISPATCH
\* iterations, whatever intents the model returns.  For the bound MaxIter:
\* once MaxIter selections have been made and nothing has raised, the loop is
\* at its end or generating the final response.
C1_EndsWithinMaxIter ==
    (SelectionsSinceEntry = MaxIter /\ pc \notin {"READY", "ERROR", "SELECT"})
        => pc \in Terminal \cup {"FINAL"}

\* C1 as amended: agent_loop has no iteration bound of its own.  An
\* invocation in which nothing raises is at DONE_FINAL (or generating the
\* final response) only after the model returned done, at CLARIFY only after
\* it returned clarification, and goes on to FILL and DISPATCH after every
\* other intent, from where a dispatch that does not raise is followed by
\* the next SELECT.
C1_EndsOnlyOnDoneOrClarification ==
    /\ pc \in {"FINAL", "DONE_FINAL"} => selection = "done"
    /\ pc = "CLARIFY" => selection = "clarification"
    /\ pc \in {"FILL", "DISPATCH"} => selection \in DOMAIN all_tool_defs
    /\ (lastOp = "execute_tool" /\ ret = "None") => pc \in {"SELECT", "READY"}

C1_Witness ==
    /\ pc = "FILL" /\ SelectionsSinceEntry = MaxIter
    /\ lastOp = "select_tool"
    /\ \E k \in 1..Len(events) : events[k].type = "tool_response"

\* the last event of the thread is an llm_response whose data.intent is intent
LastIsResponseWithIntent(intent) ==
    /\ events # <<>>
    /\ events[Len(events)].obj = "Event"
    /\ events[Len(events)].type = "llm_response"
    /\ events[Len(events)].data.py = "dict"
    /\ DictGet(events[Len(events)].data.d, "intent") = StrV(intent)

\* C2: whenever agent_loop returns without raising, the last event of the
\* thread is an llm_response whose data.intent is final_response (the loop
\* ended via done) or clarification (it ended via clarification).
C2_TerminalShape ==
    /\ pc = "DONE_FINAL" => selection = "done" /\ LastIsResponseWithIntent("final_response")
    /\ pc = "CLARIFY" => selection = "clarification" /\ LastIsResponseWithIntent("clarification")

C2_Witness ==
    /\ pc = "DONE_FINAL"
    /\ lastOp = "generate_final_response"
    /\ LastIsResponseWithIntent("final_response")
    /\ \E k \in 1..Len(events) : events[k].type = "tool_call"

\* C4: within one invocation, after the entry summarization check, every
\* step (SELECT, FILL, DISPATCH, final response) leaves the events it found
\* as a prefix of the thread.
C4_AppendOnlyInLoop ==
    [][pc \notin Idle => IsPrefix(events, events')]_vars

C4_Witness ==
    /\ pc = "SELECT" /\ lastOp = "execute_tool"
    /\ Len(events) >= Len(entry) + 4
    /\ IsPrefix(entry, events)
    /\ entry # <<>>

\* the positions of the tool_call events of the thread
ToolCalls == {k \in 1..Len(events) : events[k].type = "tool_call"}

IsOfType(v, type) ==
    CASE type = "integer" -> v.py = "int"
      [] type = "number"  -> v.py \in {"int", "float"}
      [] type = "string"  -> v.py = "str"
      [] type = "boolean" -> v.py = "bool"
      [] type = "array"   -> v.py = "list"
      [] type = "object"  -> v.py = "dict"
      [] type = "null"    -> v.py = "None"
      [] OTHER -> FALSE

\* a value is of the type a property schema declares
IsOfDeclaredType(v, schema) ==
    IF "type" \in DOMAIN schema THEN IsOfType(v, schema.type)
    ELSE \E type \in schema.anyOf : IsOfType(v, type)

\* the arguments and the parameters schema of the tool_call event at k
CallArguments(k) == events[k].data.d.arguments.d
CallSchema(k) == all_tool_defs[events[k].data.d.intent.s].parameters_json_schema

\* C6 as stated: the arguments of every tool_call event appended by
\* agent_loop satisfy the parameters schema the registry holds for the
\* selected tool: only keys of properties, every required name present,
\* every value of the declared type.
C6_ArgumentsSatisfySchema ==
    \A k \in ToolCalls :
        /\ DOMAIN CallArguments(k) \subseteq DOMAIN CallSchema(k).properties
        /\ CallSchema(k).required \subseteq DOMAIN CallArguments(k)
        /\ \A n \in DOMAIN CallArguments(k) :
               IsOfDeclaredType(CallArguments(k)[n], CallSchema(k).properties[n])

\* C6 as amended: the arguments of every tool_call event appended by
\* agent_loop have exactly the keys of the schema's properties (so every
\* required name that properties lists is present), and the value of every
\* property declared with a type key among integer, number, string, boolean,
\* array and object is of that type; the value of a property declared any
\* other way (anyOf, a list of types, no type) is whatever the model
\* returned.
C6_ArgumentsSatisfyTypedProperties ==
    \A k \in ToolCalls :
        /\ DOMAIN CallArguments(k) = DOMAIN CallSchema(k).properties
        /\ \A n \in DOMAIN CallArguments(k) :
               "type" \in DOMAIN CallSchema(k).properties[n] =>
                   IsOfDeclaredType(CallArguments(k)[n], CallSchema(k).properties[n])

C6_Witness ==
    /\ lastOp = "execute_tool"
    /\ \E k \in ToolCalls :
           /\ events[k].data.d.intent.s = "search"
           /\ CallArguments(k) = [query |-> StrV(NumStr), limit |-> IntV(3)]

Summarized ==
    /\ lastOp = "agent_loop" /\ ret = "None"
    /\ max_events \notin {NoneInt, 0} /\ Len(entry) > max_events

\* C8: summarization of a thread with n events replaces them by one
\* context_summary entry whose data is the summary text, followed by the
\* last min(n, 5) prior events in their order, and appends no llm_response.
C8_SummaryThenLastFive ==
    Summarized =>
        LET n    == Len(entry)
            kept == Min(n, KeepLastN) IN
        /\ Len(events) = 1 + kept
        /\ events[1].type = "context_summary"
        /\ events[1].data = StrV("summary")
        /\ \A k \in 1..kept : events[1 + k] = entry[n - kept + k]

C8_Witness ==
    /\ Summarized
    /\ Len(entry) > KeepLastN
    /\ Len(events) = 1 + KeepLastN
    /\ events[2] = entry[Len(entry) - KeepLastN + 1]

\* C38: summarization never increases the number of events of a thread: for
\* every configured threshold and every thread on which the entry check
\* triggers it, the thread has no more events after the summarization than
\* before.
C38_SummarizationNeverGrows ==
    Summarized => Len(events) <= Len(entry)

\* agent_loop was entered with a positive threshold set and exceeded, and
\* its first step raised nothing
EnteredOverThreshold ==
    /\ lastOp = "agent_loop" /\ ret = "None"
    /\ max_events > 0 /\ Len(entry) > max_events

\* a selection was made over a thread that begins with a summary
SelectedAfterSummary ==
    /\ lastOp = "select_tool"
    /\ Len(events) > 0 /\ events[1].type = "context_summary"

\* C23: when max_events_before_summarization is set and the thread has more
\* events than that on entry, agent_loop summarizes before its first yield,
\* and selection then proceeds normally over the compacted log: the
\* selection call builds its messages and fails only as the provider's
\* answer fails.
C23_SummarizeThenSelect ==
    /\ EnteredOverThreshold => events[1].type = "context_summary"
    /\ SelectedAfterSummary => ret \in {"None", "ValueError"}

\* the event at k is an Event of the type whose data is a mapping with
\* exactly the keys given
IsEventWith(k, type, keys) ==
    /\ k \in 1..Len(events)
    /\ events[k].obj = "Event" /\ events[k].type = type
    /\ events[k].data.py = "dict" /\ DOMAIN events[k].data.d = keys

\* the events from k on are the selection and the parameter fill of the
\* selected tool
SelectionAndFillAt(k) ==
    /\ IsEventWith(k, "llm_response", {"intent", "reason"})
    /\ events[k].data.d.intent = StrV(selection)
    /\ IsEventWith(k + 1, "llm_response", {"intent", "arguments"})
    /\ events[k + 1].data.d.intent = StrV(selection)
    /\ events[k + 1].data.d.arguments = DictV(arguments)

\* the events from k on are the tool_call of the selected tool with the
\* filled arguments, and its tool_response
CallAndResponseAt(k) ==
    /\ IsEventWith(k, "tool_call", {"intent", "arguments"})
    /\ events[k].data.d.intent = StrV(selection)
    /\ events[k].data.d.arguments = DictV(arguments)
    /\ IsEventWith(k + 1, "tool_response", {"response", "source"})

\* C24: in each loop iteration where a tool is selected and dispatch
\* succeeds, the loop appends exactly four events in this order:
\* llm_response {intent, reason}, llm_response {intent, arguments},
\* tool_call {intent, arguments}, tool_response {response, source}; the
\* three intents are the selected tool, tool_call.arguments equals the
\* filled arguments, and a tool_response is appended right after its
\* tool_call (so in a thread that was never compacted every tool_response
\* follows a tool_call).
C24_FourEventsPerIteration ==
    /\ (lastOp = "select_tool" /\ pc = "FILL") =>
           /\ Len(events) = prevLen + 1
           /\ IsEventWith(Len(events), "llm_response", {"intent", "reason"})
           /\ events[Len(events)].data.d.intent = StrV(selection)
    /\ (lastOp = "fill_parameters" /\ pc = "DISPATCH") =>
           /\ Len(events) = prevLen + 1
           /\ SelectionAndFillAt(Len(events) - 1)
    /\ (lastOp = "execute_tool" /\ pc = "SELECT") =>
           /\ Len(events) = prevLen + 2
           /\ SelectionAndFillAt(Len(events) - 3)
           /\ CallAndResponseAt(Len(events) - 1)
    /\ (Len(events) > 0 /\ events[1].type # "context_summary") =>
           \A k \in 1..Len(events) :
               events[k].type = "tool_response" =>
                   k > 1 /\ events[k - 1].type = "tool_call"

C24_Witness ==
    /\ lastOp = "execute_tool" /\ pc = "SELECT"
    /\ selection = "search"
    /\ CallAndResponseAt(Len(events) - 1)

\* the final response was generated by the last step
FinalGenerated == lastOp = "generate_final_response" /\ ret = "None"

\* C26: the final_response event's raw_results holds the data of every
\* user_input event and every tool_response event that is on the thread
\* when the final response is generated, grouped by event type: what it
\* holds under a type is the data of each event of that type.
C26_RawResultsHoldEveryEvent ==
    FinalGenerated =>
        LET raw_results == events[Len(events)].data.d.raw_results.d IN
        \A k \in 1..(Len(events) - 1) :
            events[k].type \in {"user_input", "tool_response"} =>
                /\ events[k].type \in DOMAIN raw_results
                /\ raw_results[events[k].type] = events[k].data

\* C28: the per-tool parameter model built from a tool descriptor has
\* exactly the descriptor's schema properties as fields; a field is required
\* if and only if its name is in the schema's required list, and every other
\* field is optional: the model accepts an answer exactly when the answer
\* has every name of the required list and a valid value for each field it
\* has.
C28_RequiredIffInSchema ==
    \A name \in DOMAIN all_tool_defs :
        LET schema == all_tool_defs[name].parameters_json_schema
            model  == create_model_from_tool_schema(all_tool_defs[name]) IN
        /\ DOMAIN model = DOMAIN schema.properties
        /\ \A raw \in RawAnswers(model) :
               Validated(model, raw).ok <=>
                   /\ schema.required \subseteq DOMAIN raw
                   /\ \A n \in DOMAIN raw \cap DOMAIN model :
                          Coerce(model[n], raw[n]) # Invalid

----------------------------------------------------------------------------
(* Claims about the conversation store, checked under StoreSpec. *)

\* C10: each backend behaves as a map from thread_id to snapshot: get(id)
\* returns a thread equal to the one most recently passed to set with that
\* thread_id if it has not been deleted since, and the missing value
\* otherwise; setting the same thread again and deleting an absent id change
\* nothing and raise no error.
C10_StoreIsMap ==
    /\ lastOp = "get" =>
           got = [exc |-> "None",
                  value |-> IF opKey \in DOMAIN written THEN written[opKey] ELSE NoneV]
    /\ (lastOp = "set" /\ opKey \in DOMAIN found.written /\ written = found.written) =>
           ret = "None" /\ storage = found.storage
    /\ (lastOp = "delete" /\ opKey \notin DOMAIN found.written) =>
           ret = "None" /\ storage = found.storage

\* the thread ends with a clarification request of the model followed by the
\* user_input the caller answered it with, and agent_loop is not running
AnsweredClarification ==
    /\ pc = "READY" /\ Len(events) >= 2
    /\ events[Len(events)].type = "user_input"
    /\ events[Len(events) - 1].type = "llm_response"
    /\ awaiting_human_response(SubSeq(events, 1, Len(events) - 1)) = "True"

Failed == {"ERROR", "CANCELLED"}

\* C13: when a Gateway call or a tool dispatch raises inside agent_loop, or
\* the loop is cancelled, every event that was on the thread before the
\* failing step is still there afterwards, unchanged and in the same order:
\* the step that fails leaves the events it found as a prefix of the thread.
C13_FailureKeepsEvents ==
    [][(pc \notin Failed /\ pc' \in Failed) => IsPrefix(events, events')]_vars

C13_Witness ==
    /\ pc = "ERROR" /\ lastOp = "execute_tool" /\ ret # "None"
    /\ Len(events) = prevLen + 1
    /\ events[Len(events)].type = "tool_call"
    /\ IsPrefix(entry, events)

\* the last operation was a step of agent_loop
LoopSteps ==
    {"agent_loop", "select_tool", "fill_parameters", "execute_tool",
     "generate_final_response"}

\* C16 as stated: agent_loop yields the thread once on entry and once after
\* each state transition (after SELECT, after FILL, after DISPATCH, after the
\* final response), and in a run that terminates without error the last
\* yielded thread contains every event of the thread.
C16_YieldsOncePerStep ==
    /\ (lastOp \in LoopSteps /\ ret = "None") => yields = 1
    /\ pc \in Terminal => yielded = events

\* C16 as amended: agent_loop yields the thread once on entry and once after
\* SELECT, FILL, DISPATCH and the final response, and once more, the thread
\* unchanged, before it returns on a clarification; a step that raises does
\* not yield; every yield hands over the thread with all the events appended
\* so far, so in a run that terminates without error the last yielded thread
\* contains every event of the thread.
C16_YieldsAfterEveryStep ==
    /\ (lastOp \in LoopSteps /\ ret = "None") =>
           /\ yields = IF pc = "CLARIFY" THEN 2 ELSE 1
           /\ yielded = events
    /\ (lastOp \in LoopSteps /\ ret # "None") => yields = 0
    /\ pc \in Terminal => yielded = events

C16_Witness ==
    /\ pc = "CLARIFY" /\ lastOp = "select_tool"
    /\ yields = 2 /\ yielded = events
    /\ \E k \in 1..Len(events) : events[k].type = "tool_response"

----------------------------------------------------------------------------
(* Claims about stored snapshots and the caller's thread, checked under    *)
(* LiveSpec.                                                               *)

\* C33: for the file backend, all() returns exactly one entry per thread
\* currently stored (set and not deleted since), and the key of each entry
\* equals the thread_id inside that entry's snapshot: every snapshot file is
\* named after the thread_id of its payload.
C33_AllListsStoredThreadsByTheirId ==
    (lastOp = "all" /\ backend_type = "file") =>
        /\ ret = "None"
        /\ DOMAIN got.value.d = DOMAIN written
        /\ \A k \in DOMAIN got.value.d : got.value.d[k].thread_id = k

\* C39: a stored snapshot is independent of the live thread object: after
\* ConversationMemoryStore.set(thread) or ThreadStore.update(id, thread), a
\* get(id) that returns a thread returns the thread as it was stored, however
\* the caller's thread was changed since.
C39_SnapshotIndependentOfLiveThread ==
    (/\ lastOp \in {"get", "ThreadStore.get"}
     /\ ret = "None" /\ got.value # NoneV
     /\ opKey \in DOMAIN written) =>
        got.value = written[opKey]

----------------------------------------------------------------------------
(* Claims about the JSON form of a thread, checked under JsonSpec. *)

\* C11: for every thread T, Thread.from_json(T.to_json()) equals T by
\* value: same thread_id, same events in the same order with the same types
\* and data, same metadata.
C11_RoundTripIsIdentity ==
    lastOp = "from_json" =>
        /\ got.exc = "None"
        /\ got.value = Thread("t1", events)

\* C20: the event appended by add_event(type, data, step) carries that step
\* label on the thread, and still carries it after to_json and from_json.
C20_StepLabelKept ==
    /\ lastOp = "add_event" =>
           /\ "step" \in DOMAIN events[Len(events)]
           /\ events[Len(events)].step = step
    /\ (lastOp = "from_json" /\ got.exc = "None" /\ events # <<>>) =>
           /\ "step" \in DOMAIN got.value.events[Len(events)]
           /\ got.value.events[Len(events)].step = step

----------------------------------------------------------------------------
(* Claims about the registry, checked under RegistrySpec. *)

\* C12: after two registrations of the same name, in any combination of
\* origins (local/local, local/remote, remote/local, remote/remote), the
\* catalog entry and the executor that execute_tool(name) invokes are those
\* of the second registration.  Stated of every registration: what it
\* registered is what the catalog holds and what execute_tool enters.
C12_LastRegistrationWins ==
    \A r \in registered :
        /\ r.name \in DOMAIN all_tool_defs
        /\ all_tool_defs[r.name] = r.tool_def
        /\ Executor(CurrentRegistry, r.name) = r.by

\* the name dispatched last is in neither map of the registry
Unregistered == selection \notin DOMAIN local_tools \cup DOMAIN mcp_tools

\* C14: dispatching a name that is not registered fails with the
\* unknown-tool error (ValueError), through ToolRegistry.execute_tool and
\* through Agent.execute_tool, and the thread receives no tool_response
\* event for that call: Agent.execute_tool leaves exactly the tool_call
\* event it appended before the dispatch.
C14_UnknownToolFails ==
    /\ (lastOp = "ToolRegistry.execute_tool" /\ Unregistered) =>
           ret = "ValueError" /\ executor = NoExecutor
    /\ (lastOp = "Agent.execute_tool" /\ Unregistered) =>
           /\ ret = "ValueError"
           /\ Len(events) = prevLen + 1
           /\ events[Len(events)].type = "tool_call"

C14_Witness ==
    /\ lastOp = "Agent.execute_tool" /\ selection = "nope"
    /\ DOMAIN local_tools # {} /\ DOMAIN mcp_tools # {}
    /\ ret = "ValueError"
    /\ events[Len(events)].data.d.intent = StrV("nope")

\* C29: registering a plain function produces a tool definition named
\* after the function whose schema properties are exactly the function's
\* own parameter names, typed from their annotations, and whose required
\* list is exactly the parameters that have no default.
C29_FunctionSchemaFromOwnParameters ==
    \A r \in registered :
        (lastOp = "add_tool" /\ r.by.tool.kind = "function") =>
            LET func   == r.by.tool
                own    == {func.params[k] : k \in 1..Len(func.params)}
                schema == all_tool_defs[func.name].parameters_json_schema IN
            /\ all_tool_defs[func.name].name = func.name
            /\ DOMAIN schema.properties = {p.name : p \in own}
            /\ \A p \in own : schema.properties[p.name].type = JsonType(p.annotation)
            /\ schema.required = {p.name : p \in {q \in own : ~q.has_default}}

\* C34: after any sequence of add_tool, load_mcp_tools and remove_tool
\* calls, the key set of the merged catalog (all_tool_defs) is the union of
\* the key sets of the local tools and the remote tools, and local_tool_defs
\* has the same keys as local_tools.
C34_CatalogKeysAreUnionOfTools ==
    /\ DOMAIN all_tool_defs = DOMAIN local_tools \cup DOMAIN mcp_tools
    /\ DOMAIN local_tool_defs = DOMAIN local_tools

\* C35: remove_tool(name) never raises, for any prior sequence of
\* registrations and removals, and once it has returned the name is neither
\* in the catalog nor dispatchable: execute_tool(name, ...) fails with the
\* unknown-tool error.
C35_RemovedToolIsGone ==
    lastOp = "remove_tool" =>
        /\ ret = "None"
        /\ selection \notin DOMAIN all_tool_defs
        /\ \A outcome \in {"ok", "raise"} :
               registry_execute_tool(CurrentRegistry, selection, DispatchArgs,
                                     outcome).exc = "ValueError"

----------------------------------------------------------------------------
(* Claims about the catalog in the loop, checked under CatalogSpec. *)

\* C36: every tool registered in the registry can be selected and dispatched
\* by agent_loop: if the model returns the name of a registered tool as the
\* intent, the loop proceeds to FILL (and from there to DISPATCH) for that
\* tool, whatever the tool's name is, a tool registered under the name
\* 'done' or 'clarification' included.
C36_RegisteredToolIsSelectable ==
    (lastOp = "select_tool" /\ selection \in DOMAIN all_tool_defs) =>
        /\ ret = "None"
        /\ pc = "FILL"

\* the last call was a call of the Gateway
GatewayCalled ==
    \/ lastOp \in {"select_tool", "generate_final_response"}
    \/ lastOp = "fill_parameters" /\ selection \in DOMAIN all_tool_defs

\* C37: at every Gateway call, the tool catalog placed in the system message
\* lists exactly the tools that are in the registry's merged catalog at that
\* moment, so that a tool added or removed after an earlier Gateway call
\* appears in, or disappears from, the next prompt in step with the set of
\* intents the selection accepts.
C37_PromptListsCurrentCatalog ==
    GatewayCalled =>
        /\ tool_metadata_cache # NoneV
        /\ tool_metadata_cache.tools = {all_tool_defs[k].name : k \in DOMAIN all_tool_defs}
        /\ tool_metadata_cache.tools \cup {"done", "clarification"}
               = valid_intents(all_tool_defs)

----------------------------------------------------------------------------
(* Claims about the result of a local tool, checked under LocalSpec. *)

\* the last call was ToolRegistry.execute_tool on a local tool that took the
\* arguments and whose executor returned a bare value
LocalReturnedBare ==
    /\ lastOp = "ToolRegistry.execute_tool"
    /\ executor.origin = "local"
    /\ Accepts(executor.tool.params, DOMAIN DispatchArgs)
    /\ ret # "ToolError"
    /\ executor.tool.returns.py # "ToolResult"

\* C31: ToolRegistry.execute_tool on any local tool (a registered function
\* or a registered tool object, synchronous or asynchronous) whose executor
\* returns a bare value returns a ToolResult whose llm_content and
\* display_content are the string coercion of that value and whose
\* raw_result is the bare value.
C31_LocalBareValueIsWrapped ==
    LocalReturnedBare =>
        /\ ret = "None"
        /\ result = ToolResultV(str_of(executor.tool.returns), executor.tool.returns)

----------------------------------------------------------------------------
(* Claims about the result of a remote tool, checked under RemoteSpec. *)

\* a call of a remote tool returned
RemoteReturned == lastOp = "ToolRegistry.execute_tool" /\ ret = "None"

\* the texts of the content blocks that have one, in their order
TextParts(content) ==
    LET with_text == SelectSeq(content, LAMBDA item : item.kind = "text") IN
    [k \in 1..Len(with_text) |-> with_text[k].text]

\* the JSON text of a mapping without any whitespace
compact_json(items) ==
    <<"{">>
    \o Join([k \in 1..Len(items) |-> <<items[k][1], ":", items[k][2]>>], <<",">>)
    \o <<"}">>

----------------------------------------------------------------------------
(* Claims about MCPConnectionManager, checked under ConnSpec. *)

WasConnected == TheManager \in found.connected
IsConnected == TheManager \in connected

\* C17: a connection is disconnected initially; connect() on a disconnected
\* one enters the client and leaves it connected (or raises and leaves it
\* disconnected), disconnect() on a connected one exits the client and
\* leaves it disconnected; connect() on a connected and disconnect() on a
\* disconnected connection change nothing and do not enter or exit the
\* client a second time.
C17_ConnectDisconnect ==
    /\ lastOp = "init" => ~IsConnected
    /\ (lastOp = "connect" /\ WasConnected) => CurrentConn = found
    /\ (lastOp = "connect" /\ ~WasConnected) =>
           /\ entered = found.entered + 1 /\ exited = found.exited
           /\ IsConnected <=> ret = "None"
    /\ (lastOp = "disconnect" /\ ~WasConnected) => CurrentConn = found
    /\ (lastOp = "disconnect" /\ WasConnected) =>
           /\ ~IsConnected
           /\ exited = found.exited + 1 /\ entered = found.entered

C17_Witness ==
    /\ lastOp = "connect" /\ WasConnected /\ IsConnected
    /\ entered = 1 /\ exited = 0 /\ sent > 0

\* C18: list_tools() and call_tool() on a disconnected connection fail with
\* the not-connected error (RuntimeError), send nothing to the server and
\* leave the connection as it was; so do load_mcp_tools and the registry's
\* dispatch of a remote tool whose connection is not open.
C18_DisconnectedCallsFail ==
    (/\ ~WasConnected
     /\ \/ lastOp \in {"list_tools", "call_tool", "load_mcp_tools"}
        \/ lastOp = "ToolRegistry.execute_tool" /\ executor.origin = "mcp")
        => ret = "RuntimeError" /\ CurrentConn = found

C18_Witness ==
    /\ lastOp = "ToolRegistry.execute_tool" /\ executor.origin = "mcp"
    /\ ~WasConnected /\ found.exited > 0
    /\ ret = "RuntimeError" /\ sent = found.sent

\* C19: once an `async with manager` block has been left, by its end, by an
\* exception or by cancellation, the connection is disconnected.
C19_ScopeLeavesDisconnected ==
    lastOp = "__aexit__" => ~IsConnected /\ scope = "out"

C19_Witness ==
    /\ lastOp = "__aexit__" /\ ret = "CancelledError"
    /\ WasConnected /\ ~IsConnected
    /\ exited = found.exited + 1

----------------------------------------------------------------------------
(* Claims about concurrent callers of the store, checked under RaceSpec. *)

\* The threads handed to the calls of set that have begun
RaceWritten == {writers[w].thread : w \in {x \in Writers : writers[x].pc # "idle"}}

\* What the store holds for the thread_id, as a get without concurrent
\* callers returns it
RaceStored ==
    IF backend_type = "file"
    THEN (IF file.exists THEN from_json_text(file.text)
          ELSE [exc |-> "None", value |-> NoneV])
    ELSE store_get(backend_type, storage, RaceId)

\* C21: when two writers call set concurrently for the same thread_id, the
\* snapshot stored once both have returned is the whole snapshot of one of
\* them, and a get that runs concurrently returns one whole written
\* snapshot or None, never a partial or an empty one.
C21_ConcurrentSetKeepsWholeSnapshots ==
    /\ (\A w \in Writers : writers[w].pc = "done")
          => RaceStored \in {[exc |-> "None", value |-> t] : t \in RaceWritten}
    /\ reader = "done"
          => got \in {[exc |-> "None", value |-> NoneV]}
                   \cup {[exc |-> "None", value |-> t] : t \in RaceWritten}

----------------------------------------------------------------------------
(* Claims about two interleaved loops, checked under PairSpec. *)

\* The loops an agent_loop running alone over its thread can be left at by
\* its next step from l
SoloSteps(l) ==
    CASE l.pc = "READY" -> {[l EXCEPT !.pc = "SELECT"]}
      [] l.pc = "SELECT" ->
           {LET r == select_tool(l.events, all_tool_defs, provider, intent, "r") IN
            Loop(r.events,
                 IF r.exc = "None" THEN after_select(r.returns) ELSE "ERROR",
                 IF r.exc = "None" THEN intent ELSE "None",
                 l.arguments, l.iter + 1,
                 IF provider = "ok" THEN intent ELSE "None") :
            provider \in Providers, intent \in IntentUniverse}
      [] l.pc = "FINAL" ->
           {LET r == generate_final_response(l.events, provider, "m", summary) IN
            Loop(r.events, IF r.exc = "None" THEN "DONE_FINAL" ELSE "ERROR",
                 l.selection, l.arguments, l.iter, l.answered) :
            provider \in Providers, summary \in Summaries}
      [] l.pc = "FILL" ->
           {LET r == fill_parameters(l.events, all_tool_defs, l.selection, x[1], x[2]) IN
            Loop(r.events, IF r.exc = "None" THEN "DISPATCH" ELSE "ERROR",
                 l.selection, r.arguments, l.iter, l.answered) :
            x \in Providers \X
                  RawAnswers(create_model_from_tool_schema(all_tool_defs[l.selection]))}
      [] l.pc = "DISPATCH" ->
           {LET r == execute_tool(l.events, CurrentRegistry, l.selection,
                                  l.arguments, outcome) IN
            Loop(r.events, IF r.exc = "None" THEN "SELECT" ELSE "ERROR",
                 l.selection, l.arguments, l.iter, l.answered) :
            outcome \in {"ok", "raise"}}
      [] OTHER -> {}

Carrying(evs, intent) ==
    {k \in 1..Len(evs) :
        /\ evs[k].type \in {"llm_response", "tool_call"}
        /\ evs[k].data.py = "dict"
        /\ "intent" \in DOMAIN evs[k].data.d
        /\ evs[k].data.d.intent = StrV(intent)}

\* the provider answered the loop's last selection with an intent that is
\* neither a registered tool name nor done nor clarification
AnsweredUnknown(l) ==
    l.answered \notin valid_intents(all_tool_defs) \cup {"None"}

====
